---- MODULE Spec2Model ----
(***************************************************************************)
(* Model of the fact-verification engine of MailToNewsLetter               *)
(* (src/src/fact_checker.py, class FactChecker), of its search client      *)
(* (src/src/search_engine.py) and of the daily pipeline that calls them    *)
(* (src/src/daily_newsletter.py).                                          *)
(*                                                                         *)
(* Text is a sequence of tokens.  A token is a run of characters that the  *)
(* code never looks inside in any other way than the tables below say: a   *)
(* word, a whitespace run, one punctuation mark, a label of a host name.   *)
(* Len(token) is its number of characters.  Confidences are exact          *)
(* rationals, stored as integers in units of 1/Unit.                       *)
(***************************************************************************)
EXTENDS Integers, Sequences, FiniteSets, TLC

VARIABLES api_key, cx, pc, topic, summary, claims, verification_results,
          all_sources, report, callLog, extractCalls, exc, html, lines,
          max_retries, attempt, attemptLog, searchReturn, final_query,
          no_factcheck, max_topics, selected_topics, idx, search_results,
          scraped_data, synth_attempt, synth_report, final_reports, trace, mpc

\* SearchEngine.search (src/src/search_engine.py): the engine's field, the
\* loop counter, what each attempt did, and the value returned
searchVars == <<max_retries, attempt, attemptLog, searchReturn, final_query>>

\* main() of src/src/daily_newsletter.py: its arguments, its locals, the
\* calls it has made to its collaborators, and its position
mainVars == <<no_factcheck, max_topics, selected_topics, idx, search_results,
              scraped_data, synth_attempt, synth_report, final_reports, trace, mpc>>

vars == <<api_key, cx, pc, topic, summary, claims, verification_results,
          all_sources, report, callLog, extractCalls, exc, html, lines,
          searchVars, mainVars>>

(***************************************************************************)
(* Generic helpers on sequences and sets.                                  *)
(***************************************************************************)
Min(a, b) == IF a <= b THEN a ELSE b

Max(a, b) == IF a >= b THEN a ELSE b

Range(s) == {s[i] : i \in DOMAIN s}

RECURSIVE SumSeq(_)
SumSeq(s) == IF s = <<>> THEN 0 ELSE Head(s) + SumSeq(Tail(s))

\* Python's s[:n] on a list
Take(s, n) == SubSeq(s, 1, Min(n, Len(s)))

\* all sequences over S of length at most n
RECURSIVE SeqsUpTo(_, _)
SeqsUpTo(S, n) ==
    IF n = 0 THEN {<<>>}
    ELSE LET shorter == SeqsUpTo(S, n - 1)
         IN shorter \cup {Append(q, x) : q \in shorter, x \in S}

\* sub occurs in s as a contiguous run (Python's `sub in s` on strings)
Contains(s, sub) ==
    \E i \in 0..(Len(s) - Len(sub)) :
        \A k \in 1..Len(sub) : s[i + k] = sub[k]

(***************************************************************************)
(* Characters, tokens and strings.                                         *)
(***************************************************************************)
Pad18 == "                  "

SpaceTokens == {" ", "\n", Pad18}

PunctTokens == {".", "!", "?"}

IsSpace(t) == t \in SpaceTokens

IsPunct(t) == t \in PunctTokens

\* len(s) of a string given as tokens
CharLen(s) == SumSeq([i \in DOMAIN s |-> Len(s[i])])

\* str.lower(), token by token: the tokens of the model that hold capitals
LowerTok(t) ==
    CASE t = "HPA" -> "hpa"
      [] t = "This" -> "this"
      [] t = "ALWAYS" -> "always"
      [] t = "Hello" -> "hello"
      [] t = "Pods" -> "pods"
      [] t = "Kubernetes" -> "kubernetes"
      [] t = "Latency" -> "latency"
      [] t = "Caching" -> "caching"
      [] t = "Errors" -> "errors"
      [] t = "Teams" -> "teams"
      [] t = "Replicas" -> "replicas"
      [] t = "Rollouts" -> "rollouts"
      [] t = "Horizontal" -> "horizontal"
      [] t = "Pod" -> "pod"
      [] t = "Autoscaling" -> "autoscaling"
      [] OTHER -> t

Lower(s) == [i \in DOMAIN s |-> LowerTok(s[i])]

\* str.strip(): leading and trailing whitespace removed
RECURSIVE LStrip(_)
LStrip(s) == IF s # <<>> /\ IsSpace(Head(s)) THEN LStrip(Tail(s)) ELSE s

RECURSIVE RStrip(_)
RStrip(s) ==
    IF s # <<>> /\ IsSpace(s[Len(s)]) THEN RStrip(SubSeq(s, 1, Len(s) - 1)) ELSE s

Strip(s) == RStrip(LStrip(s))

\* the word that starts at token i: the tokens up to the next whitespace
RECURSIVE WordAt(_, _)
WordAt(s, i) ==
    IF i > Len(s) \/ IsSpace(s[i]) THEN "" ELSE s[i] \o WordAt(s, i + 1)

\* str.split(): the maximal runs of non-whitespace, each run one word
Words(s) ==
    {WordAt(s, i) : i \in {j \in DOMAIN s : ~IsSpace(s[j]) /\ (j = 1 \/ IsSpace(s[j - 1]))}}

\* set(s.lower().split())
WordSet(s) == Words(Lower(s))

\* words separated by single blanks
RECURSIVE Sp(_)
Sp(ws) ==
    IF Len(ws) <= 1 THEN ws ELSE <<Head(ws), " ">> \o Sp(Tail(ws))

(***************************************************************************)
(* extract_key_claims: sentence splitting and the claim patterns.          *)
(***************************************************************************)
MinSentenceLen == 20

MainSentenceLen == 30

MainSentenceCount == 3

MaxClaims == 5

\* index of the first token at or after i that is not whitespace
RECURSIVE SkipSpaces(_, _)
SkipSpaces(s, i) ==
    IF i <= Len(s) /\ IsSpace(s[i]) THEN SkipSpaces(s, i + 1) ELSE i

\* re.split(r'[.!?]\s+', text): the pieces between the delimiters, empty
\* pieces included.  A delimiter is one mark followed by whitespace, all of
\* which it takes.
SplitSentences(text) ==
    LET marks == {i \in 1..(Len(text) - 1) : IsPunct(text[i]) /\ IsSpace(text[i + 1])}
        n == Cardinality(marks)
        Nth(k) == CHOOSE d \in marks : Cardinality({e \in marks : e < d}) = k - 1
        First(k) == IF k = 1 THEN 1 ELSE SkipSpaces(text, Nth(k - 1) + 1)
        Last(k) == IF k = n + 1 THEN Len(text) ELSE Nth(k) - 1
    IN [k \in 1..(n + 1) |-> SubSeq(text, First(k), Last(k))]

\* lower-cased tokens in which r'\d+%' matches
PctTokens == {"40%", "5%", "2%", "30%", "20%"}

\* ... that end in r'\d+x'
DigitXTokens == {"10x", "3x"}

\* ... that end in a digit
EndsDigitTokens == {"200", "5", "10"}

\* ... that start with ms, second, minute or hour
TimeUnitTokens == {"ms", "minutes", "seconds", "hours"}

\* ... that end in faster, slower, better or worse
CompareTokens == {"faster", "slower", "better", "worse"}

\* ... that start with than
ThanTokens == {"than"}

\* ... that end in always, never, must or should
StrongTokens == {"always", "never", "must", "should"}

\* ... that contain increase, decrease, improve or reduce
ChangeTokens == {"increase", "decrease", "improve", "improves", "reduce"}

\* ... that contain a digit
DigitTokens == PctTokens \cup DigitXTokens \cup EndsDigitTokens

\* only whitespace strictly between positions i and j
OnlySpaceBetween(s, i, j) == \A k \in (i + 1)..(j - 1) : IsSpace(s[k])

\* re.search(pattern, sentence, re.IGNORECASE) for the six claim patterns
MatchesPercent(s) == \E i \in DOMAIN s : LowerTok(s[i]) \in PctTokens

MatchesMultiplier(s) ==
    \E i \in DOMAIN s :
        LowerTok(s[i]) \in DigitXTokens /\ i < Len(s) /\ IsSpace(s[i + 1])

MatchesTime(s) ==
    \E i \in DOMAIN s : \E j \in DOMAIN s :
        /\ i < j
        /\ LowerTok(s[i]) \in EndsDigitTokens
        /\ OnlySpaceBetween(s, i, j)
        /\ LowerTok(s[j]) \in TimeUnitTokens

MatchesComparison(s) ==
    \E i \in DOMAIN s : \E j \in DOMAIN s :
        /\ i + 1 < j
        /\ LowerTok(s[i]) \in CompareTokens
        /\ OnlySpaceBetween(s, i, j)
        /\ LowerTok(s[j]) \in ThanTokens

MatchesStrong(s) ==
    \E i \in DOMAIN s :
        LowerTok(s[i]) \in StrongTokens /\ i < Len(s) /\ IsSpace(s[i + 1])

MatchesChange(s) ==
    \E i \in DOMAIN s : \E j \in DOMAIN s :
        /\ i < j
        /\ LowerTok(s[i]) \in ChangeTokens
        /\ LowerTok(s[j]) \in DigitTokens
        /\ \A k \in (i + 1)..(j - 1) : s[k] # "\n"

MatchesClaimPattern(s) ==
    \/ MatchesPercent(s)
    \/ MatchesMultiplier(s)
    \/ MatchesTime(s)
    \/ MatchesComparison(s)
    \/ MatchesStrong(s)
    \/ MatchesChange(s)

\* the loop over the sentences: the pattern claims, in text order
RECURSIVE PatternClaims(_)
PatternClaims(sentences) ==
    IF sentences = <<>> THEN <<>>
    ELSE LET s == Head(sentences)
         IN IF CharLen(s) >= MinSentenceLen /\ MatchesClaimPattern(s)
            THEN <<Strip(s)>> \o PatternClaims(Tail(sentences))
            ELSE PatternClaims(Tail(sentences))

\* [s.strip() for s in sentences[:3] if len(s.strip()) > 30]
RECURSIVE KeepMain(_)
KeepMain(sentences) ==
    IF sentences = <<>> THEN <<>>
    ELSE LET s == Strip(Head(sentences))
         IN IF CharLen(s) > MainSentenceLen
            THEN <<s>> \o KeepMain(Tail(sentences))
            ELSE KeepMain(Tail(sentences))

\* only the first two sentences
MainSentencesFirstTwo(sentences) == KeepMain(Take(sentences, MainSentenceCount - 1))

MainSentences(sentences) == KeepMain(Take(sentences, MainSentenceCount))

\* the orders in which list(set(...)) may enumerate the set S, cut to n
RECURSIVE Orders(_, _)
Orders(S, n) ==
    IF n = 0 \/ S = {} THEN {<<>>}
    ELSE UNION {{<<x>> \o q : q \in Orders(S \ {x}, n - 1)} : x \in S}

\* list(set(claims + main_sentences))[:5]: the iteration order of a set of
\* strings is not fixed, so every order is a possible result
DedupAndCapKeepingDuplicates(found) == {Take(found, MaxClaims)}

DedupAndCap(found) == Orders(Range(found), MaxClaims)

\* extract_key_claims(text): the set of lists it may return
ExtractKeyClaims(text) ==
    LET sentences == SplitSentences(text)
    IN DedupAndCap(PatternClaims(sentences) \o MainSentences(sentences))

(***************************************************************************)
(* Numbers.  A trust score or threshold p/100 is Pct(p); Unit is 1.0.      *)
(* Unit is a multiple of every candidate count and every claim count, so   *)
(* the averages below are exact.  The code computes in binary floating     *)
(* point: of the sums of trust scores only 0.7 + 0.7 + 0.7 is rounded      *)
(* across a threshold (to 0.6999999999999998 after the division by 3).     *)
(***************************************************************************)
ScoreOfficial == 100

ScoreEducational == 80

ScoreNews == 70

ScoreUnknown == 50

VerifiedPct == 70

PartialPct == 40

LowConfidencePct == 50

NoClaimsPct == 50

ReliablePct == 70

RelevantTrustPct == 80

OverlapPct == 20

BonusPerSourcePct == 10

MaxBonusPct == 30

MaxSources == 3

MaxReliable == 5

SearchNum == 5

ApiMaxNum == 10

QueryClaimLen == 100

RECURSIVE Gcd(_, _)
Gcd(a, b) == IF b = 0 THEN a ELSE Gcd(b, a % b)

RECURSIVE LcmUpTo(_)
LcmUpTo(n) == IF n <= 1 THEN 1 ELSE (LcmUpTo(n - 1) * n) \div Gcd(LcmUpTo(n - 1), n)

(***************************************************************************)
(* URLs and domains.                                                       *)
(***************************************************************************)
\* host labels joined by dots
RECURSIVE Dom(_)
Dom(labels) ==
    IF Len(labels) <= 1 THEN labels ELSE <<Head(labels), ".">> \o Dom(Tail(labels))

\* TRUSTED_DOMAINS, in the order of the dict
TrustedOfficial ==
    { Dom(<<"docs", "python", "org">>), Dom(<<"docs", "oracle", "com">>),
      Dom(<<"developer", "mozilla", "org">>), Dom(<<"learn", "microsoft", "com">>),
      Dom(<<"cloud", "google", "com">>), Dom(<<"aws", "amazon", "com">>),
      Dom(<<"kubernetes", "io">>), Dom(<<"docker", "com">>), Dom(<<"spring", "io">>),
      Dom(<<"redis", "io">>), Dom(<<"kafka", "apache", "org">>),
      Dom(<<"postgresql", "org">>), Dom(<<"github", "com">>) }

TrustedEducational ==
    { Dom(<<"geeksforgeeks", "org">>), Dom(<<"baeldung", "com">>),
      Dom(<<"tutorialspoint", "com">>), Dom(<<"w3schools", "com">>),
      Dom(<<"freecodecamp", "org">>), Dom(<<"stackoverflow", "com">>) }

TrustedNews ==
    { Dom(<<"techcrunch", "com">>), Dom(<<"wired", "com">>),
      Dom(<<"arstechnica", "com">>), Dom(<<"theverge", "com">>),
      Dom(<<"zdnet", "com">>), Dom(<<"infoworld", "com">>) }

\* some entry of the list is a substring of the domain
MatchesTier(domain, tier) == \E trusted \in tier : Contains(domain, trusted)

\* _get_domain_trust_score, in percent
GetDomainTrustScoreNewsFirst(domain) ==
    IF MatchesTier(domain, TrustedNews) THEN ScoreNews
    ELSE IF MatchesTier(domain, TrustedEducational) THEN ScoreEducational
    ELSE IF MatchesTier(domain, TrustedOfficial) THEN ScoreOfficial
    ELSE ScoreUnknown

GetDomainTrustScore(domain) ==
    IF MatchesTier(domain, TrustedOfficial) THEN ScoreOfficial
    ELSE IF MatchesTier(domain, TrustedEducational) THEN ScoreEducational
    ELSE IF MatchesTier(domain, TrustedNews) THEN ScoreNews
    ELSE ScoreUnknown

\* index of the first token of s at or after i that ends the netloc
RECURSIVE NetlocEnd(_, _)
NetlocEnd(s, i) ==
    IF i > Len(s) \/ s[i] \in {"/", "?", "#"} THEN i ELSE NetlocEnd(s, i + 1)

\* urlparse(url).netloc: what follows "scheme://" up to the path
Netloc(url) ==
    IF Len(url) >= 2 /\ url[2] = "://"
    THEN SubSeq(url, 3, NetlocEnd(url, 3) - 1)
    ELSE <<>>

\* urlparse raises ValueError on a netloc with an unbalanced bracket
UrlParseRaises(url) ==
    LET n == Netloc(url)
    IN ("[" \in Range(n)) # ("]" \in Range(n))

\* str.replace(old, ''): every occurrence removed, scanning left to right
RECURSIVE RemoveAll(_, _)
RemoveAll(s, old) ==
    IF s = <<>> THEN <<>>
    ELSE IF Len(s) >= Len(old) /\ SubSeq(s, 1, Len(old)) = old
         THEN RemoveAll(SubSeq(s, Len(old) + 1, Len(s)), old)
         ELSE <<Head(s)>> \o RemoveAll(Tail(s), old)

\* _extract_domain(url); isNull: the value is None, not a string
ExtractDomain(url, isNull) ==
    IF isNull \/ UrlParseRaises(url) THEN <<>>
    ELSE RemoveAll(Netloc(url), <<"www", ".">>)

(***************************************************************************)
(* The search backend: what one request to the Custom Search API may do.   *)
(* A payload item is a JSON object; "missing" names the keys it lacks and  *)
(* "nulls" the keys whose value is JSON null.                              *)
(***************************************************************************)
Item(title, link, snippet) ==
    [title |-> title, link |-> link, snippet |-> snippet, missing |-> {}, nulls |-> {}]

\* item.get(key, ''): the value, '' for a missing key, None for a null one
ItemGet(item, key) ==
    IF key \in item.missing \/ key \in item.nulls THEN <<>>
    ELSE IF key = "title" THEN item.title
    ELSE IF key = "link" THEN item.link
    ELSE item.snippet

ItemIsNone(item, key) == key \notin item.missing /\ key \in item.nulls

\* the dict built for one item, lines 109-114; "nulls" keeps which of its
\* values are None
ResultOf(item) ==
    [title |-> ItemGet(item, "title"),
     url |-> ItemGet(item, "link"),
     snippet |-> ItemGet(item, "snippet"),
     domain |-> ExtractDomain(ItemGet(item, "link"), ItemIsNone(item, "link")),
     nulls |-> {IF k = "link" THEN "url" ELSE k :
                    k \in {x \in {"title", "link", "snippet"} : ItemIsNone(item, x)}}]

\* the outcomes of requests.get that raise a RequestException
TransportFailures == {"connection_error", "timeout", "http_error"}

\* a body that is not JSON: requests >= 2.27 raises its own JSONDecodeError,
\* a RequestException; older releases raise a plain ValueError
BodyFailures == {"invalid_json", "invalid_json_legacy"}

\* a JSON body of another shape than {"items": [{...}, ...]}
ShapeFailures == {"json_not_object", "items_null", "item_not_object"}

\* the exception that leaves the try block, "none" if it returns normally
SearchException(outcome) ==
    CASE outcome.kind \in TransportFailures -> "RequestException"
      [] outcome.kind = "invalid_json" -> "RequestException"
      [] outcome.kind = "invalid_json_legacy" -> "ValueError"
      [] outcome.kind = "json_not_object" -> "AttributeError"
      [] outcome.kind = "items_null" -> "TypeError"
      [] outcome.kind = "item_not_object" -> "AttributeError"
      [] OTHER -> "none"

\* except requests.exceptions.RequestException
CaughtBySearch(e) == e = "RequestException"

\* search(query, num_results), given what the request does if one is made:
\* whether a request goes out, the exception search raises ("none" if it
\* returns) and the list it returns.  The definition of is_configured follows
\* the credentials, so search takes its value.
Search(configured, query, num_results, outcome) ==
    LET e == SearchException(outcome)
    IN IF ~configured
       THEN [outbound |-> FALSE, raised |-> "none", results |-> <<>>]
       ELSE IF e = "none"
       THEN [outbound |-> TRUE, raised |-> "none",
             results |-> [i \in DOMAIN outcome.items |-> ResultOf(outcome.items[i])]]
       ELSE IF CaughtBySearch(e)
            THEN [outbound |-> TRUE, raised |-> "none", results |-> <<>>]
            ELSE [outbound |-> TRUE, raised |-> e, results |-> <<>>]

\* claim[:100]: the whole tokens that fit and the cut token, if any
RECURSIVE FitCount(_, _)
FitCount(s, n) ==
    IF s = <<>> \/ Len(Head(s)) > n THEN 0
    ELSE 1 + FitCount(Tail(s), n - Len(Head(s)))

TruncChars(s, n) ==
    LET k == FitCount(s, n)
        rest == n - CharLen(SubSeq(s, 1, k))
    IN [whole |-> SubSeq(s, 1, k),
        cut |-> IF k < Len(s) /\ rest > 0 THEN s[k + 1] ELSE "",
        cutLen |-> IF k < Len(s) /\ rest > 0 THEN rest ELSE 0]

\* f"{topic} {claim[:100]}"
SearchQuery(tp, claim) == [topic |-> tp, claim |-> TruncChars(claim, QueryClaimLen)]

(***************************************************************************)
(* The inputs of the model: sentences, topics, payload items and the       *)
(* outcomes of a search request.                                           *)
(***************************************************************************)
\* 68 characters, matches the percentage, multiplier and comparison patterns
ChunkHpa ==
    Sp(<<"HPA", "can", "reduce", "costs", "by", "40%", "and", "scales", "10x",
         "faster", "than", "manual", "tuning">>)

\* 55 characters, matches the strong-statement pattern
ChunkAlways ==
    Sp(<<"This", "always", "improves", "reliability", "in", "production", "clusters">>)

\* ChunkAlways twice, the second time in another case
ChunkAlwaysTwice ==
    ChunkAlways \o <<".", " ">>
    \o Sp(<<"this", "ALWAYS", "improves", "reliability", "in", "production", "clusters">>)

\* 117 characters, longer than the 100 characters of a query
ChunkLong ==
    Sp(<<"This", "always", "improves", "reliability", "in", "production", "clusters",
         "because", "autoscaling", "decisions", "react", "to", "load", "within",
         "10", "seconds">>)

\* 11 characters
ChunkShort == Sp(<<"Hello", "world">>)

\* 25 characters, matches the strong-statement pattern
ChunkMid == Sp(<<"Pods", "must", "restart", "quickly">>)

\* 56 characters, matches no pattern
ChunkPlain ==
    Sp(<<"Kubernetes", "schedules", "containers", "across", "the", "cluster", "nodes">>)

\* "5%" followed by 18 blanks: 20 characters, 2 once stripped
ChunkPadded == <<"5%", Pad18>>

\* the sentence "5%" and then the same with 18 blanks after it
ChunkFiveTwice == <<"5%", ".", " ", "5%", Pad18>>

\* three sentences of 32, 45 and 34 characters, each matching a pattern
ChunkBlockA ==
    Sp(<<"Latency", "should", "stay", "under", "200", "ms">>) \o <<".", " ">>
    \o Sp(<<"Caching", "is", "3x", "faster", "than", "recomputing", "results">>)
    \o <<"?", " ">>
    \o Sp(<<"Errors", "never", "exceed", "2%", "of", "requests">>)

\* three sentences of 32, 35 and 33 characters, each matching a pattern
ChunkBlockB ==
    Sp(<<"Teams", "must", "review", "5", "alerts", "daily">>) \o <<"!", "\n">>
    \o Sp(<<"Replicas", "increase", "throughput", "by", "30%">>) \o <<".", " ">>
    \o Sp(<<"Rollouts", "improve", "after", "10", "minutes">>)

\* the texts made of the chunks cs: each chunk followed by ". ", the last
\* one by "."
RECURSIVE JoinChunks(_)
JoinChunks(cs) ==
    IF cs = <<>> THEN <<>>
    ELSE IF Len(cs) = 1 THEN Head(cs) \o <<".">>
         ELSE Head(cs) \o <<".", " ">> \o JoinChunks(Tail(cs))

Topics == {Sp(<<"Kubernetes", "autoscaling">>)}

TitleHpa == Sp(<<"Horizontal", "Pod", "Autoscaling">>)

SnippetHpa == Sp(<<"hpa", "scales", "faster", "than", "manual", "tuning">>)

SnippetNews == Sp(<<"cloud", "news", "of", "the", "week">>)

SnippetReliability ==
    Sp(<<"reliability", "in", "production", "clusters", "stay", "healthy">>)

UrlOf(host, path) == <<"https", "://">> \o host \o <<"/">> \o path

ItemK8s == Item(TitleHpa, UrlOf(Dom(<<"kubernetes", "io">>), <<"docs">>), SnippetHpa)

\* the same URL under another title
ItemK8sAgain ==
    Item(Sp(<<"Pod", "Autoscaling">>), UrlOf(Dom(<<"kubernetes", "io">>), <<"docs">>),
         SnippetNews)

ItemWired == Item(<<"wired">>, UrlOf(Dom(<<"www", "wired", "com">>), <<"story">>), SnippetNews)

ItemArs == Item(<<"ars">>, UrlOf(Dom(<<"arstechnica", "com">>), <<"x">>), SnippetNews)

ItemZdnet == Item(<<"zdnet">>, UrlOf(Dom(<<"www", "zdnet", "com">>), <<"y">>), SnippetNews)

ItemBlog ==
    Item(<<"blog">>, UrlOf(Dom(<<"blog", "example", "com">>), <<"post">>), SnippetReliability)

ItemSpam == Item(<<"spam">>, UrlOf(Dom(<<"spam", "example", "net">>), <<>>), SnippetNews)

ItemBaeldung ==
    Item(<<"baeldung">>, UrlOf(Dom(<<"www", "baeldung", "com">>), <<"k8s">>), SnippetNews)

ItemGithub ==
    Item(<<"github">>, UrlOf(Dom(<<"github", "com">>), <<"autoscaler">>), SnippetHpa)

ItemStackoverflow ==
    Item(<<"so">>, UrlOf(Dom(<<"stackoverflow", "com">>), <<"q">>), SnippetReliability)

ItemDocker == Item(<<"docker">>, UrlOf(Dom(<<"docs", "docker", "com">>), <<>>), SnippetNews)

\* a host that holds an official and an educational entry
ItemTwoTiers ==
    Item(<<"mirror">>, UrlOf(Dom(<<"github", "com", "baeldung", "com">>), <<>>), SnippetNews)

\* hardwired.com holds the news entry wired.com
ItemHardwired ==
    Item(<<"hardwired">>, UrlOf(<<"hard", "wired", ".", "com">>, <<>>), SnippetHpa)

\* user@www.github.com:8080
ItemPort ==
    Item(<<"port">>,
         UrlOf(<<"user", "@", "www", ".", "github", ".", "com", ":", "8080">>, <<"x">>),
         SnippetNews)

\* mywww.redis.io
ItemInnerWww ==
    Item(<<"inner">>, UrlOf(<<"my", "www", ".", "redis", ".", "io">>, <<>>), SnippetNews)

\* no scheme: urlparse finds no netloc
ItemNoScheme == Item(<<"bare">>, <<"kubernetes", ".", "io", "/", "docs">>, SnippetHpa)

\* urlparse raises ValueError
ItemBadUrl ==
    Item(<<"bad">>, <<"http", "://", "[", "kubernetes", ".", "io">>, SnippetNews)

\* a port that is no number: urlparse keeps it in the netloc and raises only
\* when .port is read
ItemBadPort ==
    Item(<<"badport">>,
         <<"http", "://", "kubernetes", ".", "io", ":", "badport", "/", "docs">>,
         SnippetNews)

ItemNoLink == [Item(<<"nolink">>, <<>>, SnippetNews) EXCEPT !.missing = {"link"}]

ItemNullLink == [Item(<<"nulllink">>, <<>>, SnippetNews) EXCEPT !.nulls = {"link"}]

ItemNullSnippet ==
    [Item(<<"nullsnippet">>, UrlOf(Dom(<<"kubernetes", "io">>), <<"a">>), <<>>)
        EXCEPT !.nulls = {"snippet"}]

\* a page of an unknown domain that repeats the claim
ItemMirror(host) ==
    Item(<<host>>, UrlOf(Dom(<<host, "example", "org">>), <<"hpa">>), SnippetHpa)

Ok(items) == [kind |-> "ok", items |-> items]

Failure(kind) == [kind |-> kind, items |-> <<>>]

\* what a request may do
Outcomes ==
    { Ok(<<>>),
      Ok(<<ItemK8s>>),
      Ok(<<ItemWired>>),
      Ok(<<ItemBlog>>),
      Ok(<<ItemK8s, ItemBaeldung, ItemGithub>>),
      Ok(<<ItemStackoverflow, ItemDocker, ItemTwoTiers>>),
      Ok(<<ItemBlog, ItemK8s, ItemWired, ItemK8sAgain, ItemSpam>>),
      Ok(<<ItemWired, ItemArs, ItemZdnet>>),
      Ok(<<ItemArs, ItemHardwired, ItemPort, ItemInnerWww, ItemBaeldung, ItemGithub>>),
      Ok(<<ItemNoScheme, ItemNoLink, ItemBadUrl, ItemNullLink, ItemBadPort>>),
      Ok(<<ItemBlog, ItemNullSnippet>>),
      Ok(<<ItemMirror("a"), ItemMirror("b"), ItemMirror("c"), ItemMirror("d")>>) }
    \cup {Failure(k) : k \in TransportFailures \cup BodyFailures \cup ShapeFailures}

\* the largest number of items in a payload
MaxItems == CHOOSE n \in 0..20 : /\ \E o \in Outcomes : Len(o.items) = n
                                 /\ \A o \in Outcomes : Len(o.items) <= n

Unit == 100 * LcmUpTo(MaxItems) * LcmUpTo(MaxClaims)

Pct(p) == p * (Unit \div 100)

(***************************************************************************)
(* verify_claim.                                                           *)
(***************************************************************************)
\* relevant by trust only above 0.8
IsRelevantAboveTrust(claim, result) ==
    LET claim_words == WordSet(claim)
        snippet_words == WordSet(result.snippet)
    IN \/ 100 * Cardinality(claim_words \cap snippet_words)
             > OverlapPct * Max(Cardinality(claim_words), 1)
       \/ GetDomainTrustScore(result.domain) > RelevantTrustPct

\* overlap > 0.2 or domain_score >= 0.8, line 234
IsRelevant(claim, result) ==
    LET claim_words == WordSet(claim)
        snippet_words == WordSet(result.snippet)
    IN \/ 100 * Cardinality(claim_words \cap snippet_words)
             > OverlapPct * Max(Cardinality(claim_words), 1)
       \/ GetDomainTrustScore(result.domain) >= RelevantTrustPct

\* the results that line 235 appends to relevant_sources, in order
RECURSIVE RelevantSources(_, _)
RelevantSources(claim, results) ==
    IF results = <<>> THEN <<>>
    ELSE IF IsRelevant(claim, Head(results))
         THEN <<Head(results)>> \o RelevantSources(claim, Tail(results))
         ELSE RelevantSources(claim, Tail(results))

\* the trust summed over the candidates asked for, not those returned
ConfidencePerRequested(trust_scores, nRelevant) ==
    IF trust_scores = <<>> THEN 0
    ELSE LET avg_trust == (SumSeq(trust_scores) * (Unit \div 100)) \div SearchNum
             source_bonus == Min(nRelevant * Pct(BonusPerSourcePct), Pct(MaxBonusPct))
         IN Min(avg_trust + source_bonus, Unit)

\* the bonus of 0.1 per relevant source without its limit of 0.3
ConfidenceUncapped(trust_scores, nRelevant) ==
    IF trust_scores = <<>> THEN 0
    ELSE LET avg_trust == (SumSeq(trust_scores) * (Unit \div 100)) \div Len(trust_scores)
             source_bonus == nRelevant * Pct(BonusPerSourcePct)
         IN Min(avg_trust + source_bonus, Unit)

\* lines 238-243: min(avg_trust + min(0.1 * relevant, 0.3), 1.0), in units
Confidence(trust_scores, nRelevant) ==
    IF trust_scores = <<>> THEN 0
    ELSE LET avg_trust == (SumSeq(trust_scores) * (Unit \div 100)) \div Len(trust_scores)
             source_bonus == Min(nRelevant * Pct(BonusPerSourcePct), Pct(MaxBonusPct))
         IN Min(avg_trust + source_bonus, Unit)

\* partially verified only above one half
StatusOfAboveHalf(confidence) ==
    IF confidence >= Pct(VerifiedPct) THEN "verified"
    ELSE IF confidence > Pct(LowConfidencePct) THEN "partially_verified"
    ELSE "unverified"

\* lines 246-254
StatusOfStrict(confidence) ==
    IF confidence > Pct(VerifiedPct) THEN "verified"
    ELSE IF confidence > Pct(PartialPct) THEN "partially_verified"
    ELSE "unverified"

StatusOf(confidence) ==
    IF confidence >= Pct(VerifiedPct) THEN "verified"
    ELSE IF confidence >= Pct(PartialPct) THEN "partially_verified"
    ELSE "unverified"

\* verified only for the status 'verified'
VerifiedOfStrict(confidence) == confidence >= Pct(VerifiedPct)

\* the flag set beside the status, lines 248, 251 and 254
VerifiedOf(confidence) == confidence >= Pct(PartialPct)

\* the VerificationResult of lines 209-215
UnverifiedResultHalf(claim) ==
    [claim |-> claim, verified |-> FALSE, confidence |-> Pct(NoClaimsPct),
     sources |-> <<>>, status |-> "unverified"]

UnverifiedResult(claim) ==
    [claim |-> claim, verified |-> FALSE, confidence |-> 0,
     sources |-> <<>>, status |-> "unverified"]

\* verify_claim(claim, topic), given what its search request does: the
\* exception it raises ("none" if it returns), its result and its locals
VerifyClaim(configured, claim, tp, outcome) ==
    LET query == SearchQuery(tp, claim)
        found == Search(configured, query, SearchNum, outcome)
        results == found.results
        none == [raised |-> "none", search_raised |-> found.raised,
                 outbound |-> found.outbound, query |-> query, results |-> results,
                 trust_scores |-> <<>>, relevant_sources |-> <<>>,
                 result |-> UnverifiedResult(claim)]
    IN IF found.raised # "none" THEN [none EXCEPT !.raised = found.raised]
       ELSE IF results = <<>> THEN none
       ELSE IF \E i \in DOMAIN results : "snippet" \in results[i].nulls
            \* None has no lower()
            THEN [none EXCEPT !.raised = "AttributeError"]
       ELSE LET trust_scores ==
                    [i \in DOMAIN results |-> GetDomainTrustScore(results[i].domain)]
                relevant_sources == RelevantSources(claim, results)
                confidence == Confidence(trust_scores, Len(relevant_sources))
            IN [none EXCEPT
                    !.trust_scores = trust_scores,
                    !.relevant_sources = relevant_sources,
                    !.result = [claim |-> claim,
                                verified |-> VerifiedOf(confidence),
                                confidence |-> confidence,
                                sources |-> Take(relevant_sources, MaxSources),
                                status |-> StatusOf(confidence)]]

(***************************************************************************)
(* verify_content.                                                         *)
(***************************************************************************)
\* the values of an environment variable: unset, empty, set
CredentialValues == {"None", "", "secret"}

\* bool(self.api_key and self.cx)
Unset == {"None", ""}

IsConfiguredKeyOnly(key, engine) == key \notin Unset

IsConfigured(key, engine) == key \notin Unset /\ engine \notin Unset

Warning(text) == [n |-> 0, text |-> text]

\* f'{unverified_count} claim(s) could not be verified.'
CountWarning(k) == [n |-> k, text |-> " claim(s) could not be verified."]

DisabledWarning == Warning("Google Search API not configured. Fact-checking disabled.")

NoClaimsWarning == Warning("No specific claims found to verify.")

LowConfidenceWarning == Warning("Overall confidence is low. Manual review recommended.")

EmptyReport ==
    [topic |-> <<>>, overall_confidence |-> 0, verification_results |-> <<>>,
     reliable_sources |-> <<>>, warnings |-> <<>>]

\* lines 276-282
DisabledReport(tp) ==
    [topic |-> tp, overall_confidence |-> 0, verification_results |-> <<>>,
     reliable_sources |-> <<>>, warnings |-> <<DisabledWarning>>]

\* lines 288-294
NoClaimsReportZero(tp) ==
    [topic |-> tp, overall_confidence |-> 0, verification_results |-> <<>>,
     reliable_sources |-> <<>>, warnings |-> <<NoClaimsWarning>>]

NoClaimsReport(tp) ==
    [topic |-> tp, overall_confidence |-> Pct(NoClaimsPct), verification_results |-> <<>>,
     reliable_sources |-> <<>>, warnings |-> <<NoClaimsWarning>>]

\* source['url'], which may be None
UrlKey(source) == <<source.url, "url" \in source.nulls>>

\* lines 313-319: first occurrence of each URL, kept if its domain is trusted
RECURSIVE UniqueReliable(_, _)
UniqueReliable(sources, seen_urls) ==
    IF sources = <<>> THEN <<>>
    ELSE LET source == Head(sources)
         IN IF UrlKey(source) \notin seen_urls
            THEN (IF GetDomainTrustScore(source.domain) >= ReliablePct
                  THEN <<source>> ELSE <<>>)
                 \o UniqueReliable(Tail(sources), seen_urls \cup {UrlKey(source)})
            ELSE UniqueReliable(Tail(sources), seen_urls)

\* reliable_sources[:5]
ReliableSourcesUncapped(sources) == UniqueReliable(sources, {})

ReliableSources(sources) == Take(UniqueReliable(sources, {}), MaxReliable)

\* the mean of the confidences of the verified results only
OverallConfidenceOfVerified(results) ==
    LET kept == {i \in DOMAIN results : results[i].verified}
    IN IF results = <<>> THEN Pct(NoClaimsPct)
       ELSE IF kept = {} THEN 0
       ELSE SumSeq([i \in DOMAIN results |->
                       IF i \in kept THEN results[i].confidence ELSE 0])
                \div Cardinality(kept)

\* lines 306-310
OverallConfidence(results) ==
    IF results # <<>>
    THEN SumSeq([i \in DOMAIN results |-> results[i].confidence]) \div Len(results)
    ELSE Pct(NoClaimsPct)

\* the advisory also at an overall confidence of exactly 0.5
WarningsLowAtMost(results, overall_confidence) ==
    LET unverified_count ==
            Cardinality({i \in DOMAIN results : results[i].status = "unverified"})
    IN (IF unverified_count > 0 THEN <<CountWarning(unverified_count)>> ELSE <<>>)
       \o (IF overall_confidence <= Pct(LowConfidencePct)
           THEN <<LowConfidenceWarning>> ELSE <<>>)

\* a single unverified result is not reported
WarningsFromTwo(results, overall_confidence) ==
    LET unverified_count ==
            Cardinality({i \in DOMAIN results : results[i].status = "unverified"})
    IN (IF unverified_count > 1 THEN <<CountWarning(unverified_count)>> ELSE <<>>)
       \o (IF overall_confidence < Pct(LowConfidencePct)
           THEN <<LowConfidenceWarning>> ELSE <<>>)

\* lines 322-327
Warnings(results, overall_confidence) ==
    LET unverified_count ==
            Cardinality({i \in DOMAIN results : results[i].status = "unverified"})
    IN (IF unverified_count > 0 THEN <<CountWarning(unverified_count)>> ELSE <<>>)
       \o (IF overall_confidence < Pct(LowConfidencePct)
           THEN <<LowConfidenceWarning>> ELSE <<>>)

\* lines 305-335
BuildReport(tp, results, sources) ==
    [topic |-> tp,
     overall_confidence |-> OverallConfidence(results),
     verification_results |-> results,
     reliable_sources |-> ReliableSources(sources),
     warnings |-> Warnings(results, OverallConfidence(results))]

(***************************************************************************)
(* format_report_html.  The list html of the code is a sequence of         *)
(* elements, one per append: its tag, the colour and icon it is given,     *)
(* the text it shows, the address it links to and the percentage it        *)
(* prints.                                                                 *)
(***************************************************************************)
HtmlGreenPct == 70

HtmlAmberPct == 40

HtmlMaxResults == 3

HtmlMaxSources == 3

PreviewLen == 80

TitleLen == 50

Green == "#27ae60"

Amber == "#f39c12"

Red == "#e74c3c"

\* U+2713, U+26A0 and U+2717
IconVerified == "check mark"

IconPartial == "warning sign"

IconUnverified == "ballot x"

HtmlEl(tag, color, icon, text, href, n) ==
    [tag |-> tag, color |-> color, icon |-> icon, text |-> text, href |-> href, n |-> n]

HtmlTag(tag) == HtmlEl(tag, "", "", <<>>, <<>>, 0)

\* int(report.overall_confidence * 100)
ConfidencePct(overall_confidence) == (overall_confidence * 100) \div Unit

\* green only above 70
ConfidenceColorAbove(confidence_pct) ==
    IF confidence_pct > HtmlGreenPct THEN Green
    ELSE IF confidence_pct > HtmlAmberPct THEN Amber
    ELSE Red

\* lines 346-350
ConfidenceColor(confidence_pct) ==
    IF confidence_pct >= HtmlGreenPct THEN Green
    ELSE IF confidence_pct >= HtmlAmberPct THEN Amber
    ELSE Red

\* lines 365-369
StatusIcon(status) ==
    IF status = "verified" THEN IconVerified
    ELSE IF status = "partially_verified" THEN IconPartial
    ELSE IconUnverified

\* lines 370-374
StatusColor(status) ==
    IF status = "verified" THEN Green
    ELSE IF status = "partially_verified" THEN Amber
    ELSE Red

\* s[:n], followed by '...' if dots
Preview(s, n, dots) == [shown |-> TruncChars(s, n), dots |-> dots]

\* line 375: result.claim[:80] + '...' if len(result.claim) > 80 else result.claim
ClaimPreview(claim) == Preview(claim, PreviewLen, CharLen(claim) > PreviewLen)

\* lines 362-377
HtmlResults(results) ==
    IF results = <<>> THEN <<>>
    ELSE <<HtmlTag("div.verifications")>>
         \o [i \in 1..Min(Len(results), HtmlMaxResults) |->
                HtmlEl("result", StatusColor(results[i].status),
                       StatusIcon(results[i].status), ClaimPreview(results[i].claim),
                       <<>>, 0)]
         \o <<HtmlTag("/div.verifications")>>

\* lines 380-385: every title is cut to 50 characters and followed by '...'
HtmlSources(sources) ==
    IF sources = <<>> THEN <<>>
    ELSE <<HtmlTag("div.sources"), HtmlTag("p")>>
         \o [i \in 1..Min(Len(sources), HtmlMaxSources) |->
                HtmlEl("a", "#3498db", "", Preview(sources[i].title, TitleLen, TRUE),
                       sources[i].url, 0)]
         \o <<HtmlTag("/div.sources")>>

\* lines 388-392
HtmlWarnings(warnings) ==
    IF warnings = <<>> THEN <<>>
    ELSE <<HtmlTag("div.warnings")>>
         \o [i \in DOMAIN warnings |-> HtmlEl("warning", "", "", warnings[i], <<>>, 0)]
         \o <<HtmlTag("/div.warnings")>>

\* format_report_html(report), lines 341-395
FormatReportHtml(rep) ==
    <<HtmlTag("div.fact-check"), HtmlTag("h4"),
      HtmlEl("confidence-meter", ConfidenceColor(ConfidencePct(rep.overall_confidence)),
             "", <<>>, <<>>, ConfidencePct(rep.overall_confidence))>>
    \o HtmlResults(rep.verification_results)
    \o HtmlSources(rep.reliable_sources)
    \o HtmlWarnings(rep.warnings)
    \o <<HtmlTag("/div.fact-check")>>

(***************************************************************************)
(* format_report_text.  The list lines of the code is a sequence of lines, *)
(* one per append: what the line is, the icon and the status label it      *)
(* starts with, the text it shows, the address it prints and the           *)
(* percentage it prints.                                                   *)
(***************************************************************************)
TextPreviewLen == 60

TextMaxSources == 3

TextLine(tag, icon, label, shown, href, n) ==
    [tag |-> tag, icon |-> icon, label |-> label, text |-> shown, href |-> href, n |-> n]

TextTag(tag) == TextLine(tag, "", "", <<>>, <<>>, 0)

\* line 413: one icon for both verified statuses
VerifiedIcon(verified) == IF verified THEN IconVerified ELSE IconUnverified

\* lines 410-414: every result, its claim cut to 60 characters and
\* followed by '...'
TextResults(results) ==
    IF results = <<>> THEN <<>>
    ELSE <<TextTag("Verification Results:")>>
         \o [i \in DOMAIN results |->
                TextLine("result", VerifiedIcon(results[i].verified), results[i].status,
                         Preview(results[i].claim, TextPreviewLen, TRUE), <<>>, 0)]

\* the two lines of the i-th source, lines 420-421
SourceLine(sources, k) ==
    IF k % 2 = 1
    THEN TextLine("source", "", "", Preview(sources[(k + 1) \div 2].title, TitleLen, TRUE),
                  <<>>, 0)
    ELSE TextLine("url", "", "", <<>>, sources[k \div 2].url, 0)

\* lines 416-421
TextSources(sources) ==
    IF sources = <<>> THEN <<>>
    ELSE <<TextTag(""), TextTag("Verified Sources:")>>
         \o [k \in 1..(2 * Min(Len(sources), TextMaxSources)) |-> SourceLine(sources, k)]

\* lines 423-427
TextWarnings(warnings) ==
    IF warnings = <<>> THEN <<>>
    ELSE <<TextTag(""), TextTag("Warnings:")>>
         \o [i \in DOMAIN warnings |-> TextLine("warning", "", "", warnings[i], <<>>, 0)]

\* format_report_text(report), lines 401-430
FormatReportText(rep) ==
    <<TextTag("rule"), TextTag("FACT-CHECK REPORT"), TextTag("rule"),
      TextLine("Overall Confidence:", "", "", <<>>, <<>>,
               ConfidencePct(rep.overall_confidence)),
      TextTag("")>>
    \o TextResults(rep.verification_results)
    \o TextSources(rep.reliable_sources)
    \o TextWarnings(rep.warnings)
    \o <<TextTag("rule")>>

(***************************************************************************)
(* The state machine.  pc is the position of the one call in progress:     *)
(* "idle" before verify_content, "verifying" inside the loop of line 300,  *)
(* "returned" and "raised" after it; "extract" and "extracted" before and  *)
(* after a direct call of extract_key_claims.                              *)
(***************************************************************************)
MaxSummaryChunks == 2

MaxTextChunks == 2

SummaryChunks == {ChunkHpa, ChunkLong, ChunkShort}

Summaries == {JoinChunks(cs) : cs \in SeqsUpTo(SummaryChunks, MaxSummaryChunks)}

TextChunks ==
    {ChunkHpa, ChunkAlways, ChunkAlwaysTwice, ChunkShort, ChunkMid, ChunkPlain,
     ChunkPadded, ChunkFiveTwice, ChunkBlockA, ChunkBlockB}

Texts == {JoinChunks(cs) : cs \in SeqsUpTo(TextChunks, MaxTextChunks)}

\* the claims that extract_key_claims can return for a summary
KnownClaims == UNION {Range(found) : found \in UNION {ExtractKeyClaims(t) : t \in Summaries}}

\* verify_claim, tabulated once for every value of is_configured(), claim,
\* topic and outcome of the request
VerifyClaimTable ==
    [configured \in BOOLEAN, claim \in KnownClaims, tp \in Topics, outcome \in Outcomes |->
        VerifyClaim(configured, claim, tp, outcome)]

TypeOK ==
    /\ api_key \in CredentialValues
    /\ cx \in CredentialValues
    /\ pc \in {"idle", "verifying", "returned", "raised", "extract", "extracted",
             "searching", "sleeping", "search_returned"}
    /\ topic \in Topics
    /\ extractCalls \in 0..1
    /\ exc \in {"none", "ValueError", "AttributeError", "TypeError"}

\* SearchEngine(): max_retries=3, and no search in progress
DefaultMaxRetries == 3

SearchIdle ==
    /\ max_retries = DefaultMaxRetries
    /\ attempt = 0
    /\ attemptLog = <<>>
    /\ searchReturn = <<>>
    /\ final_query = <<>>

\* the value of synthesize_report: None (kind "None"), or what json.loads
\* made of the answer: a dict with the keys asked for, or a JSON list
NoReport == [kind |-> "None", keys |-> {}, title |-> <<>>, summary_ko |-> <<>>,
             fact_check_html |-> <<>>]

\* main() not started: --max-topics defaults to 3, --no-factcheck to False
DefaultMaxTopics == 3

MainIdle ==
    /\ no_factcheck = FALSE
    /\ max_topics = DefaultMaxTopics
    /\ selected_topics = <<>>
    /\ idx = 0
    /\ search_results = <<>>
    /\ scraped_data = <<>>
    /\ synth_attempt = 0
    /\ synth_report = NoReport
    /\ final_reports = <<>>
    /\ trace = <<>>
    /\ mpc = "idle"

InitCommon ==
    /\ api_key \in CredentialValues
    /\ cx \in CredentialValues
    /\ topic \in Topics
    /\ claims = <<>>
    /\ verification_results = <<>>
    /\ all_sources = <<>>
    /\ report = EmptyReport
    /\ callLog = <<>>
    /\ extractCalls = 0
    /\ exc = "none"
    /\ html = <<>>
    /\ lines = <<>>
    /\ SearchIdle
    /\ MainIdle

Init ==
    /\ InitCommon
    /\ summary \in Summaries
    /\ pc = "idle"

\* verify_content on an unconfigured engine, lines 275-282
VerifyContentDisabled ==
    /\ pc = "idle"
    /\ ~IsConfigured(api_key, cx)
    /\ report' = DisabledReport(topic)
    /\ pc' = "returned"
    /\ UNCHANGED <<api_key, cx, topic, summary, claims, verification_results,
                   all_sources, callLog, extractCalls, exc, html, lines,
                   searchVars, mainVars>>

\* verify_content when no claim is extracted, lines 285-294
VerifyContentNoClaims ==
    /\ pc = "idle"
    /\ IsConfigured(api_key, cx)
    /\ \E found \in ExtractKeyClaims(summary) :
          /\ found = <<>>
          /\ claims' = found
    /\ extractCalls' = extractCalls + 1
    /\ report' = NoClaimsReport(topic)
    /\ pc' = "returned"
    /\ UNCHANGED <<api_key, cx, topic, summary, verification_results,
                   all_sources, callLog, exc, html, lines,
                   searchVars, mainVars>>

\* verify_content up to the loop, lines 285-298
VerifyContentExtract ==
    /\ pc = "idle"
    /\ IsConfigured(api_key, cx)
    /\ \E found \in ExtractKeyClaims(summary) :
          /\ found # <<>>
          /\ claims' = found
    /\ extractCalls' = extractCalls + 1
    /\ verification_results' = <<>>
    /\ all_sources' = <<>>
    /\ pc' = "verifying"
    /\ UNCHANGED <<api_key, cx, topic, summary, report, callLog, exc, html, lines,
                   searchVars, mainVars>>

\* what one pass of the loop did: the request (params of line 95), what
\* search and verify_claim raised, and the locals of verify_claim
LogEntry(outcome, call) ==
    [query |-> call.query, num |-> Min(SearchNum, ApiMaxNum), kind |-> outcome.kind,
     outbound |-> call.outbound, search_raised |-> call.search_raised,
     raised |-> call.raised, results |-> call.results,
     trust_scores |-> call.trust_scores, relevant_sources |-> call.relevant_sources]

\* one pass of the loop, lines 300-303: verify_claim returns its result, or
\* raises and the exception leaves verify_content
VerifyNextClaim ==
    /\ pc = "verifying"
    /\ Len(verification_results) < Len(claims)
    /\ \E outcome \in Outcomes :
          LET claim == claims[Len(verification_results) + 1]
              call == VerifyClaimTable[IsConfigured(api_key, cx), claim, topic, outcome]
          IN /\ callLog' = Append(callLog, LogEntry(outcome, call))
             /\ IF call.raised = "none"
                THEN /\ verification_results' = Append(verification_results, call.result)
                     /\ all_sources' = all_sources \o call.result.sources
                     /\ UNCHANGED <<pc, exc>>
                ELSE /\ exc' = call.raised
                     /\ pc' = "raised"
                     /\ UNCHANGED <<verification_results, all_sources>>
    /\ UNCHANGED <<api_key, cx, topic, summary, claims, report, extractCalls, html, lines,
                   searchVars, mainVars>>

\* after the loop, lines 305-335
Aggregate ==
    /\ pc = "verifying"
    /\ Len(verification_results) = Len(claims)
    /\ report' = BuildReport(topic, verification_results, all_sources)
    /\ pc' = "returned"
    /\ UNCHANGED <<api_key, cx, topic, summary, claims, verification_results,
                   all_sources, callLog, extractCalls, exc, html, lines,
                   searchVars, mainVars>>

Next ==
    \/ VerifyContentDisabled
    \/ VerifyContentNoClaims
    \/ VerifyContentExtract
    \/ VerifyNextClaim
    \/ Aggregate

Spec == Init /\ [][Next]_vars

\* a direct call of extract_key_claims(text)
InitExtract ==
    /\ InitCommon
    /\ api_key = "None"
    /\ cx = "None"
    /\ summary \in Texts
    /\ pc = "extract"

ExtractKeyClaimsCall ==
    /\ pc = "extract"
    /\ claims' \in ExtractKeyClaims(summary)
    /\ extractCalls' = extractCalls + 1
    /\ pc' = "extracted"
    /\ UNCHANGED <<api_key, cx, topic, summary, verification_results,
                   all_sources, report, callLog, exc, html, lines,
                   searchVars, mainVars>>

NextExtract == ExtractKeyClaimsCall

SpecExtract == InitExtract /\ [][NextExtract]_vars

\* the sources of the results, one list after the other
RECURSIVE ConcatSources(_)
ConcatSources(results) ==
    IF results = <<>> THEN <<>>
    ELSE Head(results).sources \o ConcatSources(Tail(results))

\* the summaries whose reports are formatted: no claim, one claim, two
\* claims of which one is longer than 80 characters, and four claims
FormatTexts ==
    {<<>>, JoinChunks(<<ChunkHpa>>), JoinChunks(<<ChunkLong, ChunkHpa>>),
     JoinChunks(<<ChunkBlockA, ChunkHpa>>)}

\* what the searches of these reports found
FormatOutcomes ==
    {Ok(<<>>), Ok(<<ItemWired>>), Ok(<<ItemK8s, ItemBaeldung, ItemGithub>>),
     Ok(<<ItemStackoverflow, ItemDocker, ItemTwoTiers>>),
     Ok(<<ItemMirror("a"), ItemMirror("b"), ItemMirror("c"), ItemMirror("d")>>)}

\* the claims of these summaries
FormatClaims ==
    UNION {Range(found) : found \in UNION {ExtractKeyClaims(t) : t \in FormatTexts}}

\* verify_claim on a configured engine, tabulated for these claims and
\* outcomes
FormatVerifyTable ==
    [claim \in FormatClaims, tp \in Topics, outcome \in FormatOutcomes |->
        VerifyClaim(TRUE, claim, tp, outcome)]

\* a call of a formatter on a report that verify_content has returned: the
\* state in which verify_content returns for one of the summaries, after
\* searches that found one of the outcomes each
InitFormat ==
    /\ api_key = "secret"
    /\ cx \in {"None", "secret"}
    /\ topic \in Topics
    /\ summary \in FormatTexts
    /\ claims \in (IF IsConfigured(api_key, cx) THEN ExtractKeyClaims(summary) ELSE {<<>>})
    /\ \E outs \in [DOMAIN claims -> FormatOutcomes] :
          LET calls == [i \in DOMAIN claims |->
                           FormatVerifyTable[claims[i], topic, outs[i]]]
          IN /\ callLog = [i \in DOMAIN claims |-> LogEntry(outs[i], calls[i])]
             /\ verification_results = [i \in DOMAIN claims |-> calls[i].result]
    /\ all_sources = ConcatSources(verification_results)
    /\ report = IF ~IsConfigured(api_key, cx) THEN DisabledReport(topic)
                ELSE IF claims = <<>> THEN NoClaimsReport(topic)
                ELSE BuildReport(topic, verification_results, all_sources)
    /\ extractCalls = IF IsConfigured(api_key, cx) THEN 1 ELSE 0
    /\ exc = "none"
    /\ html = <<>>
    /\ lines = <<>>
    /\ SearchIdle
    /\ MainIdle
    /\ pc = "returned"

\* html = format_report_html(report)
FormatReportHtmlCall ==
    /\ pc = "returned"
    /\ html = <<>>
    /\ html' = FormatReportHtml(report)
    /\ UNCHANGED <<api_key, cx, pc, topic, summary, claims, verification_results,
                   all_sources, report, callLog, extractCalls, exc, lines,
                   searchVars, mainVars>>

\* text = format_report_text(report)
FormatReportTextCall ==
    /\ pc = "returned"
    /\ lines = <<>>
    /\ lines' = FormatReportText(report)
    /\ UNCHANGED <<api_key, cx, pc, topic, summary, claims, verification_results,
                   all_sources, report, callLog, extractCalls, exc, html,
                   searchVars, mainVars>>

NextFormat ==
    \/ FormatReportHtmlCall
    \/ FormatReportTextCall

SpecFormat == InitFormat /\ [][NextFormat]_vars

(***************************************************************************)
(* SearchEngine.search (src/src/search_engine.py, lines 13-35).            *)
(***************************************************************************)
\* the largest max_retries an engine is constructed with
MaxRetriesArg == 3

\* search(query, max_results=3)
DefaultMaxResults == 3

SearchQueries == {<<"redis", " ", "tutorial">>, <<"redis">>}

\* line 20: f"{query} -site:medium.com"
FinalQuery(q) == q \o <<" ", "-site:medium.com">>

\* what DDGS().text yields: dicts with title, href and body
DdgsItem(host) ==
    [title |-> <<host, " ", "guide">>,
     href |-> <<"https://", host, ".io", "/", "guide">>,
     body |-> <<"about", " ", host>>]

DdgsLists == {<<DdgsItem("redis")>>, <<DdgsItem("redis"), DdgsItem("valkey")>>}

\* subclasses of Exception that the backend raises
DdgsExceptions == {"RatelimitException", "TimeoutException"}

\* line 22: the loop body runs while attempt is in range(self.max_retries)
MayAttemptInclusive == attempt <= max_retries

MayAttempt == attempt < max_retries

AttemptEntry(kind, value) ==
    [final_query |-> final_query, max_results |-> DefaultMaxResults,
     kind |-> kind, value |-> value]

\* the fact checker and main() take no part in a direct call of search
CheckerIdle ==
    /\ topic \in Topics
    /\ summary = <<>>
    /\ claims = <<>>
    /\ verification_results = <<>>
    /\ all_sources = <<>>
    /\ report = EmptyReport
    /\ callLog = <<>>
    /\ extractCalls = 0
    /\ exc = "none"
    /\ html = <<>>
    /\ lines = <<>>

\* SearchEngine(max_retries).search(query): lines 20-21 done, loop not begun
InitSearch ==
    /\ api_key = "None"
    /\ cx = "None"
    /\ CheckerIdle
    /\ MainIdle
    /\ max_retries \in 0..MaxRetriesArg
    /\ \E q \in SearchQueries : final_query = FinalQuery(q)
    /\ attempt = 0
    /\ attemptLog = <<>>
    /\ searchReturn = <<>>
    /\ pc = "searching"

\* lines 24-28: the backend yields a non-empty list, which is returned
AttemptFinds ==
    /\ pc = "searching"
    /\ MayAttempt
    /\ \E results \in DdgsLists :
          /\ attemptLog' = Append(attemptLog, AttemptEntry("results", results))
          /\ searchReturn' = results
    /\ attempt' = attempt + 1
    /\ pc' = "search_returned"
    /\ UNCHANGED <<api_key, cx, topic, summary, claims, verification_results,
                   all_sources, report, callLog, extractCalls, exc, html, lines,
                   max_retries, final_query, mainVars>>

\* lines 24-27: the backend yields an empty list; the loop goes on at once
AttemptEmpty ==
    /\ pc = "searching"
    /\ MayAttempt
    /\ attemptLog' = Append(attemptLog, AttemptEntry("results", <<>>))
    /\ attempt' = attempt + 1
    /\ UNCHANGED <<api_key, cx, pc, topic, summary, claims, verification_results,
                   all_sources, report, callLog, extractCalls, exc, html, lines,
                   max_retries, searchReturn, final_query, mainVars>>

\* lines 30-32: DDGS() or ddgs.text raises; the handler logs and sleeps
AttemptRaises ==
    /\ pc = "searching"
    /\ MayAttempt
    /\ \E e \in DdgsExceptions :
          attemptLog' = Append(attemptLog, AttemptEntry("raised", e))
    /\ pc' = "sleeping"
    /\ UNCHANGED <<api_key, cx, topic, summary, claims, verification_results,
                   all_sources, report, callLog, extractCalls, exc, html, lines,
                   max_retries, attempt, searchReturn, final_query, mainVars>>

\* line 32: time.sleep(2) returns, and the loop goes on
SleepEnds ==
    /\ pc = "sleeping"
    /\ attempt' = attempt + 1
    /\ pc' = "searching"
    /\ UNCHANGED <<api_key, cx, topic, summary, claims, verification_results,
                   all_sources, report, callLog, extractCalls, exc, html, lines,
                   max_retries, attemptLog, searchReturn, final_query, mainVars>>

\* line 35: the loop is exhausted
ReturnEmpty ==
    /\ pc = "searching"
    /\ ~MayAttempt
    /\ searchReturn' = <<>>
    /\ pc' = "search_returned"
    /\ UNCHANGED <<api_key, cx, topic, summary, claims, verification_results,
                   all_sources, report, callLog, extractCalls, exc, html, lines,
                   max_retries, attempt, attemptLog, final_query, mainVars>>

NextSearch ==
    \/ AttemptFinds
    \/ AttemptEmpty
    \/ AttemptRaises
    \/ SleepEnds
    \/ ReturnEmpty

\* every call of the backend returns or raises, and every sleep ends
SpecSearch == InitSearch /\ [][NextSearch]_vars /\ WF_vars(NextSearch)

(***************************************************************************)
(* main() of src/src/daily_newsletter.py: one run of the daily pipeline.   *)
(* The collaborators (Gmail, the digest parser, the search engine, the     *)
(* scraper, the LLM, the fact checker, the template) are calls whose       *)
(* outcome is chosen from what their code can return; trace records the    *)
(* calls in order.                                                         *)
(***************************************************************************)
\* the largest --max-topics given on the command line
MaxTopicsArg == 2

\* the largest number of topics collected from the digests
MaxDigestTopics == 3

\* line 240: for attempt in range(3)
SynthAttempts == 3

\* line 77: keywords[:4]
MaxKeywords == 4

\* line 210: search_keywords.split()[:2]
SimplerKeywords == 2

\* line 76: len(w) > 2
MinKeywordLen == 2

\* line 170: len(cleaned) > 15
MinTopicLen == 15

\* lines 57-72
StopWords ==
    {"i", "the", "a", "an", "is", "was", "were", "be", "been", "being",
     "have", "has", "had", "do", "does", "did", "will", "would", "could",
     "should", "may", "might", "must", "shall", "can", "need", "dare",
     "to", "of", "in", "for", "on", "with", "at", "by", "from", "up",
     "about", "into", "through", "during", "before", "after", "above",
     "below", "between", "under", "again", "further", "then", "once",
     "here", "there", "when", "where", "why", "how", "all", "each",
     "few", "more", "most", "other", "some", "such", "no", "nor", "not",
     "only", "own", "same", "so", "than", "too", "very", "just", "or",
     "and", "but", "if", "because", "as", "until", "while", "this",
     "that", "these", "those", "am", "are", "my", "your", "his", "her",
     "its", "our", "their", "what", "which", "who", "whom", "both",
     "you", "me", "him", "them", "we", "they", "it", "he", "she",
     "don", "dont", "didn", "doesn", "won", "wouldn", "couldn", "shouldn",
     "isn", "aren", "wasn", "weren", "haven", "hasn", "hadn",
     "ever", "never", "also", "even", "still", "already", "yet"}

\* Python's s[:n] for any integer n: a negative n counts from the end
PySlice(s, n) ==
    IF n >= 0 THEN Take(s, n) ELSE SubSeq(s, 1, Max(Len(s) + n, 0))

\* lines 74-76: the words of the lowered title that are no stop words and
\* longer than 2 characters
RECURSIVE KeywordsOf(_)
KeywordsOf(s) ==
    IF s = <<>> THEN <<>>
    ELSE LET w == LowerTok(Head(s))
         IN IF IsSpace(w) \/ IsPunct(w) \/ w \in StopWords \/ Len(w) <= MinKeywordLen
            THEN KeywordsOf(Tail(s))
            ELSE <<w>> \o KeywordsOf(Tail(s))

\* extract_keywords_from_title, as the list of the words it joins
ExtractKeywordsFromTitle(title) == Take(KeywordsOf(title), MaxKeywords)

\* line 204
TutorialQuery(tp) == Sp(ExtractKeywordsFromTitle(tp)) \o <<" ", "tutorial">>

\* line 210
SimplerQuery(tp) == Sp(Take(ExtractKeywordsFromTitle(tp), SimplerKeywords))

\* the cleaned titles that the digests of a day hold (lines 155-171)
TopicKubernetes == Sp(<<"Kubernetes", "autoscaling">>)

TopicCaching == Sp(<<"Caching", "with", "redis", "in", "production">>)

TopicShort == Sp(<<"redis", "in", "Pods">>)

\* line 170: a cleaned title is kept when it is longer than 15 characters
DigestTopics ==
    {t \in {TopicKubernetes, Lower(TopicKubernetes), TopicCaching, TopicShort} :
        CharLen(t) > MinTopicLen}

\* lines 174-180: the first of the topics equal in lower case is kept
RECURSIVE UniqueTopics(_, _)
UniqueTopics(all, seen) ==
    IF all = <<>> THEN <<>>
    ELSE IF Lower(Head(all)) \in seen THEN UniqueTopics(Tail(all), seen)
         ELSE <<Head(all)>> \o UniqueTopics(Tail(all), seen \cup {Lower(Head(all))})

\* line 185
SelectedTopics(all, n) == PySlice(UniqueTopics(all, {}), n)

\* what search_engine.search returns to main: [] or the backend's items
MainSearchResults == {<<>>, <<DdgsItem("redis"), DdgsItem("valkey")>>}

ReportDict(tp) ==
    [kind |-> "dict", keys |-> {"title", "summary_ko", "references"},
     title |-> <<"report", ":", " ">> \o tp, summary_ko |-> JoinChunks(<<ChunkHpa>>),
     fact_check_html |-> <<>>]

ReportList == [NoReport EXCEPT !.kind = "list"]

SynthOutcomes(tp) == {NoReport, ReportDict(tp), ReportList}

\* bool(report): None is falsy, the dict and the list are not empty
Truthy(rep) == rep.kind # "None"

\* the reports verify_content returns on a configured checker
FactReports ==
    [tp \in DigestTopics |->
        {NoClaimsReport(tp),
         BuildReport(tp, <<VerifyClaim(TRUE, ChunkHpa, tp, Ok(<<ItemWired>>)).result>>,
                     VerifyClaim(TRUE, ChunkHpa, tp, Ok(<<ItemWired>>)).result.sources)}]

\* lines 128 and 254
FactCheckAlways == TRUE

FactCheckEnabled == ~no_factcheck /\ IsConfigured(api_key, cx)

Topic == selected_topics[idx]

Call(op, arg, result) == [op |-> op, topic |-> idx, arg |-> arg, result |-> result]

Logged(calls) == trace' = trace \o calls

\* the loop over selected_topics goes on with the next topic, or ends
NextTopic ==
    /\ idx' = idx + 1
    /\ mpc' = IF idx < Len(selected_topics) THEN "search" ELSE "render"

\* main() entered with its arguments parsed (lines 99-103)
InitMain ==
    /\ api_key = "secret"
    /\ cx \in {"None", "secret"}
    /\ pc = "idle"
    /\ CheckerIdle
    /\ SearchIdle
    /\ no_factcheck \in BOOLEAN
    /\ max_topics \in -1..MaxTopicsArg
    /\ selected_topics = <<>>
    /\ idx = 0
    /\ search_results = <<>>
    /\ scraped_data = <<>>
    /\ synth_attempt = 0
    /\ synth_report = NoReport
    /\ final_reports = <<>>
    /\ trace = <<>>
    /\ mpc = "initialize"

\* lines 121-135: a constructor may raise, and main returns
InitializeClients ==
    /\ mpc = "initialize"
    /\ \E ok \in BOOLEAN :
          /\ Logged(<<Call("initialize", <<>>, IF ok THEN "ok" ELSE "raised")>>)
          /\ mpc' = IF ok THEN "fetch" ELSE "done"
    /\ UNCHANGED <<api_key, cx, pc, topic, summary, claims, verification_results,
                   all_sources, report, callLog, extractCalls, exc, html, lines,
                   searchVars, no_factcheck, max_topics, selected_topics, idx,
                   search_results, scraped_data, synth_attempt, synth_report,
                   final_reports>>

\* lines 137-192: the topics of the day's digests (none when no message is
\* found), without duplicates, cut to max_topics
CollectTopics ==
    /\ mpc = "fetch"
    /\ \E all_topics \in SeqsUpTo(DigestTopics, MaxDigestTopics) :
          /\ selected_topics' = SelectedTopics(all_topics, max_topics)
          /\ Logged(<<Call("search_messages", <<>>,
                           IF all_topics = <<>> THEN "empty" ELSE "messages")>>)
    /\ idx' = 1
    /\ mpc' = IF selected_topics' = <<>> THEN "done" ELSE "search"
    /\ UNCHANGED <<api_key, cx, pc, topic, summary, claims, verification_results,
                   all_sources, report, callLog, extractCalls, exc, html, lines,
                   searchVars, no_factcheck, max_topics,
                   search_results, scraped_data, synth_attempt, synth_report,
                   final_reports>>

\* lines 203-207
SearchTopic ==
    /\ mpc = "search"
    /\ \E res \in MainSearchResults :
          /\ search_results' = res
          /\ Logged(<<Call("search", TutorialQuery(Topic),
                           IF res = <<>> THEN "empty" ELSE "results")>>)
          /\ mpc' = IF res = <<>> THEN "search_retry" ELSE "scrape"
    /\ UNCHANGED <<api_key, cx, pc, topic, summary, claims, verification_results,
                   all_sources, report, callLog, extractCalls, exc, html, lines,
                   searchVars, no_factcheck, max_topics, selected_topics, idx,
                   scraped_data, synth_attempt, synth_report, final_reports>>

\* lines 209-216: one more search with the first two keywords; the topic is
\* skipped when that is empty too
SearchSimpler ==
    /\ mpc = "search_retry"
    /\ \E res \in MainSearchResults :
          /\ search_results' = res
          /\ Logged(<<Call("search", SimplerQuery(Topic),
                           IF res = <<>> THEN "empty" ELSE "results")>>)
          /\ IF res = <<>> THEN NextTopic ELSE mpc' = "scrape" /\ idx' = idx
    /\ UNCHANGED <<api_key, cx, pc, topic, summary, claims, verification_results,
                   all_sources, report, callLog, extractCalls, exc, html, lines,
                   searchVars, no_factcheck, max_topics, selected_topics,
                   scraped_data, synth_attempt, synth_report, final_reports>>

\* the entries of scraped_data for the results whose page gave content
RECURSIVE Scraped(_, _)
Scraped(results, got) ==
    IF results = <<>> THEN <<>>
    ELSE (IF Head(got)
          THEN <<[title |-> Head(results).title, url |-> Head(results).href,
                  content |-> Head(results).body]>>
          ELSE <<>>)
         \o Scraped(Tail(results), Tail(got))

\* lines 221-235: fetch_content on every result; the topic is skipped when
\* no page gave content; line 239
ScrapeResults ==
    /\ mpc = "scrape"
    /\ \E got \in [DOMAIN search_results -> BOOLEAN] :
          /\ scraped_data' = Scraped(search_results, got)
          /\ Logged([i \in DOMAIN search_results |->
                        Call("fetch_content", search_results[i].href,
                             IF got[i] THEN "text" ELSE "None")])
          /\ IF scraped_data' = <<>> THEN NextTopic
             ELSE mpc' = "synthesize" /\ idx' = idx
    /\ synth_attempt' = 0
    /\ synth_report' = NoReport
    /\ UNCHANGED <<api_key, cx, pc, topic, summary, claims, verification_results,
                   all_sources, report, callLog, extractCalls, exc, html, lines,
                   searchVars, no_factcheck, max_topics, selected_topics,
                   search_results, final_reports>>

\* line 240: the loop body runs while attempt is in range(3)
SynthMayTryInclusive == synth_attempt <= SynthAttempts

SynthMayTry == synth_attempt < SynthAttempts

\* lines 240-245: one call of synthesize_report; break on a truthy report,
\* else sleep 20 seconds and go on
SynthesizeAttempt ==
    /\ mpc = "synthesize"
    /\ SynthMayTry
    /\ \E rep \in SynthOutcomes(Topic) :
          /\ synth_report' = rep
          /\ Logged(<<Call("synthesize_report", Topic, rep.kind)>>)
          /\ mpc' = IF Truthy(rep) THEN "report" ELSE "synthesize"
    /\ synth_attempt' = synth_attempt + 1
    /\ UNCHANGED <<api_key, cx, pc, topic, summary, claims, verification_results,
                   all_sources, report, callLog, extractCalls, exc, html, lines,
                   searchVars, no_factcheck, max_topics, selected_topics, idx,
                   search_results, scraped_data, final_reports>>

\* lines 247-249: the loop ended without a report
SynthGivesUp ==
    /\ mpc = "synthesize"
    /\ ~SynthMayTry
    /\ NextTopic
    /\ UNCHANGED <<api_key, cx, pc, topic, summary, claims, verification_results,
                   all_sources, report, callLog, extractCalls, exc, html, lines,
                   searchVars, no_factcheck, max_topics, selected_topics,
                   search_results, scraped_data, synth_attempt, synth_report,
                   final_reports, trace>>

\* line 251: report.get on a value that is no dict raises AttributeError,
\* which leaves main
ReportNotDict ==
    /\ mpc = "report"
    /\ synth_report.kind # "dict"
    /\ mpc' = "crashed"
    /\ UNCHANGED <<api_key, cx, pc, topic, summary, claims, verification_results,
                   all_sources, report, callLog, extractCalls, exc, html, lines,
                   searchVars, no_factcheck, max_topics, selected_topics, idx,
                   search_results, scraped_data, synth_attempt, synth_report,
                   final_reports, trace>>

\* lines 254-269 with fact-checking on: verify_content returns a report,
\* its HTML is stored in the report, and the report is appended
FactCheckAndAppend ==
    /\ mpc = "report"
    /\ synth_report.kind = "dict"
    /\ FactCheckEnabled
    /\ \E fact_report \in FactReports[Topic] :
          final_reports' =
              Append(final_reports,
                     [synth_report EXCEPT !.keys = @ \cup {"fact_check_html"},
                                          !.fact_check_html = FormatReportHtml(fact_report)])
    /\ Logged(<<Call("verify_content", Topic, "report")>>)
    /\ NextTopic
    /\ UNCHANGED <<api_key, cx, pc, topic, summary, claims, verification_results,
                   all_sources, report, callLog, extractCalls, exc, html, lines,
                   searchVars, no_factcheck, max_topics, selected_topics,
                   search_results, scraped_data, synth_attempt, synth_report>>

\* line 258: verify_content raises (a malformed search answer, lines 104-114
\* of fact_checker.py), and the exception leaves main
FactCheckRaises ==
    /\ mpc = "report"
    /\ synth_report.kind = "dict"
    /\ FactCheckEnabled
    /\ Logged(<<Call("verify_content", Topic, "raised")>>)
    /\ mpc' = "crashed"
    /\ UNCHANGED <<api_key, cx, pc, topic, summary, claims, verification_results,
                   all_sources, report, callLog, extractCalls, exc, html, lines,
                   searchVars, no_factcheck, max_topics, selected_topics, idx,
                   search_results, scraped_data, synth_attempt, synth_report,
                   final_reports>>

\* lines 254 and 268-269 with fact-checking off
AppendUnchecked ==
    /\ mpc = "report"
    /\ synth_report.kind = "dict"
    /\ ~FactCheckEnabled
    /\ final_reports' = Append(final_reports, synth_report)
    /\ NextTopic
    /\ UNCHANGED <<api_key, cx, pc, topic, summary, claims, verification_results,
                   all_sources, report, callLog, extractCalls, exc, html, lines,
                   searchVars, no_factcheck, max_topics, selected_topics,
                   search_results, scraped_data, synth_attempt, synth_report, trace>>

\* lines 271-273
NoReportsGenerated ==
    /\ mpc = "render"
    /\ final_reports = <<>>
    /\ mpc' = "done"
    /\ UNCHANGED <<api_key, cx, pc, topic, summary, claims, verification_results,
                   all_sources, report, callLog, extractCalls, exc, html, lines,
                   searchVars, no_factcheck, max_topics, selected_topics, idx,
                   search_results, scraped_data, synth_attempt, synth_report,
                   final_reports, trace>>

\* lines 279-291: the template renders, or raises and main returns
RenderNewsletter ==
    /\ mpc = "render"
    /\ final_reports # <<>>
    /\ \E ok \in BOOLEAN :
          /\ Logged(<<Call("render", <<>>, IF ok THEN "html" ELSE "raised")>>)
          /\ mpc' = IF ok THEN "send" ELSE "done"
    /\ UNCHANGED <<api_key, cx, pc, topic, summary, claims, verification_results,
                   all_sources, report, callLog, extractCalls, exc, html, lines,
                   searchVars, no_factcheck, max_topics, selected_topics, idx,
                   search_results, scraped_data, synth_attempt, synth_report,
                   final_reports>>

\* lines 297-306: the profile is read and the newsletter is sent, or the
\* profile request raises and nothing is sent
SendNewsletter ==
    /\ mpc = "send"
    /\ \E profile \in BOOLEAN :
          Logged(<<IF profile THEN Call("send_email", <<>>, "sent")
                   ELSE Call("getProfile", <<>>, "raised")>>)
    /\ mpc' = "done"
    /\ UNCHANGED <<api_key, cx, pc, topic, summary, claims, verification_results,
                   all_sources, report, callLog, extractCalls, exc, html, lines,
                   searchVars, no_factcheck, max_topics, selected_topics, idx,
                   search_results, scraped_data, synth_attempt, synth_report,
                   final_reports>>

NextMain ==
    \/ InitializeClients
    \/ CollectTopics
    \/ SearchTopic
    \/ SearchSimpler
    \/ ScrapeResults
    \/ SynthesizeAttempt
    \/ SynthGivesUp
    \/ ReportNotDict
    \/ FactCheckAndAppend
    \/ FactCheckRaises
    \/ AppendUnchecked
    \/ NoReportsGenerated
    \/ RenderNewsletter
    \/ SendNewsletter

SpecMain == InitMain /\ [][NextMain]_vars

(***************************************************************************)
(* Properties.                                                             *)
(***************************************************************************)
Returned == pc = "returned"

CredentialsMissing == api_key \in Unset \/ cx \in Unset

\* the first position of a source with this URL in a list that holds one
FirstIndex(sources, key) ==
    CHOOSE i \in DOMAIN sources :
        /\ UrlKey(sources[i]) = key
        /\ \A j \in 1..(i - 1) : UrlKey(sources[j]) # key

\* C1: every VerificationResult that verify_claim returned has a confidence
\* in [0,1], status 'verified' exactly when confidence >= 0.7,
\* 'partially_verified' exactly when 0.4 <= confidence < 0.7, 'unverified'
\* exactly when confidence < 0.4, and never the status 'conflicting'.
C1_StatusMatchesConfidence ==
    \A i \in DOMAIN verification_results :
        LET r == verification_results[i]
        IN /\ 0 <= r.confidence /\ r.confidence <= Unit
           /\ (r.status = "verified") <=> (r.confidence >= Pct(70))
           /\ (r.status = "partially_verified")
                  <=> (Pct(40) <= r.confidence /\ r.confidence < Pct(70))
           /\ (r.status = "unverified") <=> (r.confidence < Pct(40))
           /\ r.status # "conflicting"

\* a result with confidence exactly 0.7 beside a partially verified one
C1_Witness ==
    /\ Returned
    /\ \E i \in DOMAIN verification_results :
          /\ verification_results[i].confidence = Pct(70)
          /\ verification_results[i].status = "verified"
    /\ \E i \in DOMAIN verification_results :
          verification_results[i].status = "partially_verified"

\* C2: when api_key or cx is missing, verify_content makes no search call,
\* extracts no claims and returns a report with overall_confidence 0.0, one
\* warning, no verification results and no reliable sources.
C2_DisabledShortCircuit ==
    (CredentialsMissing /\ pc # "idle") =>
        /\ Returned
        /\ callLog = <<>>
        /\ extractCalls = 0
        /\ report.overall_confidence = 0
        /\ Len(report.warnings) = 1
        /\ report.verification_results = <<>>
        /\ report.reliable_sources = <<>>

\* verify_content has returned on an engine that has a key but no cx, for a
\* summary that holds claims
C2_Witness ==
    /\ Returned
    /\ api_key = "secret"
    /\ cx \in Unset
    /\ summary = JoinChunks(<<ChunkHpa, ChunkLong>>)
    /\ report.warnings = <<DisabledWarning>>

\* C3: on a configured engine, when no claim is extracted, verify_content
\* returns overall_confidence 0.5 with one warning and no verification
\* results, and makes no search call.
C3_NoClaimsNeutral ==
    (~CredentialsMissing /\ pc # "idle" /\ claims = <<>>) =>
        /\ Returned
        /\ report.overall_confidence = Pct(50)
        /\ Len(report.warnings) = 1
        /\ report.verification_results = <<>>
        /\ callLog = <<>>

\* verify_content has returned for the empty summary on a configured engine
C3_Witness ==
    /\ Returned
    /\ ~CredentialsMissing
    /\ summary = <<>>
    /\ extractCalls = 1
    /\ report.warnings = <<NoClaimsWarning>>

AllSearchesEmpty ==
    \A k \in DOMAIN callLog : callLog[k].raised = "none" /\ callLog[k].results = <<>>

\* C4: if every search returned an empty list, every result is unverified
\* with confidence 0.0 and no sources, and the overall confidence of the
\* report of a summary with claims is 0.0.
C4_ZeroResults ==
    AllSearchesEmpty =>
        /\ \A i \in DOMAIN verification_results :
              /\ verification_results[i].status = "unverified"
              /\ verification_results[i].confidence = 0
              /\ verification_results[i].sources = <<>>
        /\ (Returned /\ claims # <<>>) =>
              /\ report.overall_confidence = 0
              /\ report.verification_results = verification_results

\* a report of two claims, one search failed in transport and one found
\* nothing
C4_Witness ==
    /\ Returned
    /\ Len(claims) = 2
    /\ AllSearchesEmpty
    /\ \E k \in DOMAIN callLog : callLog[k].kind \in TransportFailures
    /\ \E k \in DOMAIN callLog : callLog[k].kind = "ok"

\* C5: reliable_sources of a returned report has at most 5 entries, no URL
\* twice, only entries of trust score >= 0.7, only entries that are a source
\* of some verification result, in the order of their first occurrence in
\* the concatenated source lists.
C5_ReliableSources ==
    Returned =>
        LET rs == report.reliable_sources
            sources == ConcatSources(report.verification_results)
        IN /\ Len(rs) <= 5
           /\ \A i \in DOMAIN rs : \A j \in DOMAIN rs :
                 i # j => UrlKey(rs[i]) # UrlKey(rs[j])
           /\ \A i \in DOMAIN rs :
                 /\ MatchesTier(rs[i].domain, TrustedOfficial \cup TrustedEducational
                                                  \cup TrustedNews)
                 /\ rs[i] \in Range(sources)
                 /\ rs[i] = sources[FirstIndex(sources, UrlKey(rs[i]))]
           /\ \A i \in DOMAIN rs : \A j \in DOMAIN rs :
                 i < j => FirstIndex(sources, UrlKey(rs[i]))
                             < FirstIndex(sources, UrlKey(rs[j]))

\* a report whose results hold six trusted sources of six URLs: the sixth
\* is cut
C5_Witness ==
    /\ Returned
    /\ Len(report.reliable_sources) = 5
    /\ LET sources == ConcatSources(report.verification_results)
       IN /\ Cardinality({UrlKey(sources[i]) : i \in DOMAIN sources}) = 6
          /\ \A i \in DOMAIN sources : GetDomainTrustScore(sources[i].domain) >= 70

\* a report whose results hold a URL twice and a source of an unknown domain
C5_WitnessDuplicate ==
    /\ Returned
    /\ report.reliable_sources # <<>>
    /\ LET sources == ConcatSources(report.verification_results)
       IN /\ Cardinality({UrlKey(sources[i]) : i \in DOMAIN sources}) < Len(sources)
          /\ \E i \in DOMAIN sources : ~MatchesTier(sources[i].domain,
                 TrustedOfficial \cup TrustedEducational \cup TrustedNews)

\* C6: the trust score of a domain is 1.0 if the domain holds an official
\* entry, otherwise 0.8 if it holds an educational entry, otherwise 0.7 if
\* it holds a news entry, otherwise 0.5.
C6_TrustTiers ==
    \A k \in DOMAIN callLog : \A i \in DOMAIN callLog[k].trust_scores :
        LET domain == callLog[k].results[i].domain
            score == callLog[k].trust_scores[i]
            official == \E t \in TrustedOfficial : Contains(domain, t)
            educational == \E t \in TrustedEducational : Contains(domain, t)
            news == \E t \in TrustedNews : Contains(domain, t)
        IN /\ score \in {100, 80, 70, 50}
           /\ official => score = 100
           /\ (~official /\ educational) => score = 80
           /\ (~official /\ ~educational /\ news) => score = 70
           /\ (~official /\ ~educational /\ ~news) => score = 50

\* a domain that holds an official and an educational entry was scored 1.0,
\* and hardwired.com was scored as the news entry it holds, beside a domain
\* of the educational tier
C6_Witness ==
    /\ \E k \in DOMAIN callLog : \E i \in DOMAIN callLog[k].trust_scores :
          /\ callLog[k].results[i].domain = Dom(<<"github", "com", "baeldung", "com">>)
          /\ callLog[k].trust_scores[i] = 100
    /\ \E k \in DOMAIN callLog : \E i \in DOMAIN callLog[k].trust_scores :
          /\ callLog[k].results[i].domain = <<"hard", "wired", ".", "com">>
          /\ callLog[k].trust_scores[i] = 70
          /\ 80 \in Range(callLog[k].trust_scores)

\* the empty domain of a URL without a host was scored 0.5, and so was an
\* unknown domain
C6_WitnessUnknown ==
    /\ \E k \in DOMAIN callLog : \E i \in DOMAIN callLog[k].trust_scores :
          /\ callLog[k].results[i].domain = <<>>
          /\ callLog[k].trust_scores[i] = 50
    /\ \E k \in DOMAIN callLog : \E i \in DOMAIN callLog[k].trust_scores :
          /\ callLog[k].results[i].domain = Dom(<<"blog", "example", "com">>)
          /\ callLog[k].trust_scores[i] = 50

Extracted == pc = "extracted"

\* claims + main_sentences of line 187, before the set is taken, tabulated
\* for the texts of the model
FoundTable ==
    [text \in Texts |->
        PatternClaims(SplitSentences(text)) \o MainSentences(SplitSentences(text))]

FoundIn(text) == FoundTable[text]

C8_SearchNeverRaises ==
    \A k \in DOMAIN callLog :
        /\ callLog[k].search_raised = "none"
        /\ callLog[k].kind # "ok" => callLog[k].results = <<>>

\* C9: no exception leaves verify_content, whatever the topic, the summary
\* and the behaviour of the search backend.
C9_NoExceptionCrossesBoundary == pc # "raised" /\ exc = "none"

\* C10: once verify_content has ended for a summary with claims, there is
\* one result per claim, in extraction order, and a claim whose search failed
\* has the result unverified/0.0 while the others are verified as usual.
C10_OneResultPerClaim ==
    (pc \in {"returned", "raised"} /\ claims # <<>>) =>
        /\ Len(verification_results) = Len(claims)
        /\ \A i \in DOMAIN claims :
              /\ verification_results[i].claim = claims[i]
              /\ callLog[i].kind # "ok" =>
                    /\ verification_results[i].status = "unverified"
                    /\ verification_results[i].confidence = 0

\* the number of characters of claim[:100] in a query
QueryClaimChars(query) == CharLen(query.claim.whole) + query.claim.cutLen

\* the query is f"{tp} {claim[:100]}": the topic, then the first 100
\* characters of the claim (all of it if it is shorter)
IsQueryFor(query, tp, claim) ==
    /\ query.topic = tp
    /\ Len(query.claim.whole) <= Len(claim)
    /\ query.claim.whole = SubSeq(claim, 1, Len(query.claim.whole))
    /\ QueryClaimChars(query) = Min(CharLen(claim), 100)
    /\ query.claim.cutLen > 0 =>
          /\ query.claim.cut = claim[Len(query.claim.whole) + 1]
          /\ query.claim.cutLen < Len(query.claim.cut)

OutboundCalls == {k \in DOMAIN callLog : callLog[k].outbound}

\* C11: when a verify_content call on a configured engine has ended, the
\* number of outbound search calls equals the number of extracted claims:
\* the k-th call is the one search of the k-th claim, with the query
\* "{topic} {claim[:100]}" and num = 5, and no search is made twice.
C11_OneSearchPerClaim ==
    (~CredentialsMissing /\ pc \in {"returned", "raised"}) =>
        /\ Cardinality(OutboundCalls) = Len(claims)
        /\ Len(callLog) = Len(claims)
        /\ \A k \in DOMAIN callLog :
              /\ callLog[k].outbound
              /\ IsQueryFor(callLog[k].query, topic, claims[k])
              /\ callLog[k].num = 5

\* the confidences of a list of results
Confidences(results) == [i \in DOMAIN results |-> results[i].confidence]

\* C12: the overall_confidence of a report built from at least one claim is
\* the arithmetic mean of the confidences of its verification_results, and
\* lies in [0,1].
C12_OverallIsMean ==
    (Returned /\ ~CredentialsMissing /\ claims # <<>>) =>
        LET results == report.verification_results
        IN /\ results = verification_results
           /\ results # <<>>
           /\ report.overall_confidence * Len(results) = SumSeq(Confidences(results))
           /\ 0 <= report.overall_confidence
           /\ report.overall_confidence <= Unit

\* a report of two results of different confidences, one of them unverified:
\* the overall confidence lies strictly between the two
C12_Witness ==
    /\ Returned
    /\ Len(report.verification_results) = 2
    /\ report.verification_results[1].confidence = 0
    /\ report.verification_results[2].confidence > Pct(70)
    /\ report.verification_results[2].confidence < Unit
    /\ report.overall_confidence > 0
    /\ report.overall_confidence < report.verification_results[2].confidence

\* the number of results of a report with status 'unverified'
UnverifiedCount(rep) ==
    Cardinality({i \in DOMAIN rep.verification_results :
                    rep.verification_results[i].status = "unverified"})

HasCountWarning(rep) ==
    \E i \in DOMAIN rep.warnings : rep.warnings[i].text = " claim(s) could not be verified."

HasLowConfidenceWarning(rep) ==
    \E i \in DOMAIN rep.warnings : rep.warnings[i] = LowConfidenceWarning

\* the results that verify_claim can return on a configured engine
ReturnableResults ==
    {VerifyClaimTable[TRUE, claim, tp, outcome].result :
        claim \in KnownClaims, tp \in Topics,
        outcome \in {o \in Outcomes :
                        \A c \in KnownClaims, t \in Topics :
                            VerifyClaimTable[TRUE, c, t, o].raised = "none"}}

\* the warnings that lines 322-327 give for a list of returnable results
WarningsOf(results) == Warnings(results, OverallConfidence(results))

\* some list of returnable results gets the advisory without the count
\* warning, and some list the count warning without the advisory
EachWarningCanAppearAlone ==
    /\ \E results \in SeqsUpTo(ReturnableResults, MaxSummaryChunks) :
          results # <<>> /\ WarningsOf(results) = <<LowConfidenceWarning>>
    /\ \E results \in SeqsUpTo(ReturnableResults, MaxSummaryChunks) :
          results # <<>> /\ Len(WarningsOf(results)) = 1
                         /\ WarningsOf(results) # <<LowConfidenceWarning>>

\* what C13 says of the report of a call that has returned
WarningsFollowReport ==
    (Returned /\ ~CredentialsMissing /\ claims # <<>>) =>
        LET k == UnverifiedCount(report)
            low == report.overall_confidence < Pct(50)
            w == report.warnings
        IN /\ (k > 0) <=> HasCountWarning(report)
           /\ k > 0 => CountWarning(k) \in Range(w)
           /\ low <=> HasLowConfidenceWarning(report)
           /\ Len(w) = (IF k > 0 THEN 1 ELSE 0) + (IF low THEN 1 ELSE 0)
           /\ (k > 0 /\ low) => w = <<CountWarning(k), LowConfidenceWarning>>

\* C13 as stated: the report of at least one claim has the warning
\* "<k> claim(s) could not be verified." exactly when k > 0 results are
\* unverified and the low-confidence advisory exactly when the overall
\* confidence is below 0.5, the count warning first; and each of the two
\* can appear without the other.
C13_WarningsIndependent ==
    /\ WarningsFollowReport
    /\ (Returned /\ ~CredentialsMissing /\ claims # <<>>) => EachWarningCanAppearAlone

\* C13 as the code has it: the two conditions as stated, the count warning
\* first; the advisory never appears without the count warning, because a
\* result that is not unverified has a confidence of at least 0.5.
C13_WarningsFollowReport ==
    /\ WarningsFollowReport
    /\ \A i \in DOMAIN verification_results :
          verification_results[i].status # "unverified" =>
              verification_results[i].confidence >= Pct(50)
    /\ (Returned /\ ~CredentialsMissing /\ claims # <<>> /\ HasLowConfidenceWarning(report))
           => HasCountWarning(report)

\* a report with both warnings, the count warning first, of two results of
\* which one is unverified
C13_Witness ==
    /\ Returned
    /\ Len(report.verification_results) = 2
    /\ UnverifiedCount(report) = 1
    /\ report.overall_confidence > 0
    /\ report.warnings = <<CountWarning(1), LowConfidenceWarning>>

\* a report with the count warning alone, at an overall confidence of
\* exactly 0.5
C13_WitnessCountOnly ==
    /\ Returned
    /\ report.overall_confidence = Pct(50)
    /\ report.warnings = <<CountWarning(1)>>

\* a report of two results without a warning
C13_WitnessNone ==
    /\ Returned
    /\ Len(report.verification_results) = 2
    /\ report.warnings = <<>>

\* overlap > 0.2: |words(claim) & words(snippet)| / max(|words(claim)|, 1)
OverlapAboveFifth(claim, snippet) ==
    5 * Cardinality(WordSet(claim) \cap WordSet(snippet))
        > Max(Cardinality(WordSet(claim)), 1)

\* the snippets of the payloads of the model
KnownSnippets ==
    UNION {{ItemGet(o.items[i], "snippet") : i \in DOMAIN o.items} : o \in Outcomes}

\* the overlap test, tabulated for the claims and snippets of the model
OverlapTable ==
    [claim \in KnownClaims, snippet \in KnownSnippets |->
        OverlapAboveFifth(claim, snippet)]

\* the candidates of the k-th search that are relevant to the k-th claim
RelevantAt(k) ==
    {i \in DOMAIN callLog[k].results :
        \/ OverlapTable[claims[k], callLog[k].results[i].snippet]
        \/ callLog[k].trust_scores[i] >= 80}

\* the searches after which verify_claim went on to score candidates
Scored == {k \in DOMAIN callLog : callLog[k].raised = "none" /\ callLog[k].results # <<>>}

\* C14: for a claim whose search returned n > 0 candidates, the confidence
\* is min(average trust of all n candidates + min(0.1 * relevant, 0.3), 1.0);
\* the bonus is at most 0.3 and the confidence at most 1.0.
C14_ConfidenceFormula ==
    \A k \in Scored :
        LET n == Len(callLog[k].results)
            total == SumSeq(callLog[k].trust_scores) * (Unit \div 100)
            bonus == IF Cardinality(RelevantAt(k)) >= 3 THEN Pct(30)
                     ELSE Cardinality(RelevantAt(k)) * Pct(10)
            c == verification_results[k].confidence
        IN /\ Len(callLog[k].trust_scores) = n
           /\ n * c = Min(total + n * bonus, n * Unit)
           /\ n * c - total <= n * Pct(30)
           /\ c <= Unit

\* four relevant candidates of average trust 0.5 gave the confidence 0.8,
\* and a single official candidate the confidence 1.0
C14_Witness ==
    /\ \E k \in Scored :
          /\ Cardinality(RelevantAt(k)) = 4
          /\ SumSeq(callLog[k].trust_scores) = 4 * 50
          /\ verification_results[k].confidence = Pct(80)
    /\ \E k \in Scored :
          /\ callLog[k].trust_scores = <<100>>
          /\ verification_results[k].confidence = Unit

\* the j-th smallest element of a set of numbers
NthSmallest(S, j) == CHOOSE i \in S : Cardinality({x \in S : x < i}) = j - 1

\* C15: the sources of a result are the first (up to 3) relevant candidates
\* of its own search, in search-result order, a candidate being relevant iff
\* its overlap with the claim is > 0.2 or its trust score is >= 0.8; the
\* result of an empty search has no sources.
C15_SourcesAreFirstRelevant ==
    \A k \in DOMAIN verification_results :
        LET sources == verification_results[k].sources
            results == callLog[k].results
        IN /\ Len(sources) = Min(Cardinality(RelevantAt(k)), 3)
           /\ \A j \in DOMAIN sources :
                 sources[j] = results[NthSmallest(RelevantAt(k), j)]

\* five candidates of which the first is relevant by overlap alone, the
\* third is not relevant and three are relevant by trust: the sources are
\* the first, second and fourth candidate
C15_Witness ==
    \E k \in DOMAIN verification_results :
        /\ Len(callLog[k].results) = 5
        /\ RelevantAt(k) = {1, 2, 4}
        /\ callLog[k].trust_scores[1] = 50
        /\ verification_results[k].sources
              = <<callLog[k].results[1], callLog[k].results[2], callLog[k].results[4]>>

\* more than three relevant candidates: the fourth is left out
C15_WitnessCut ==
    \E k \in DOMAIN verification_results :
        /\ Cardinality(RelevantAt(k)) > 3
        /\ Len(verification_results[k].sources) = 3

\* C16: in every VerificationResult, verified is true exactly when the
\* status is 'verified' or 'partially_verified' and false exactly when the
\* status is 'unverified'.
C16_VerifiedFlag ==
    \A i \in DOMAIN verification_results :
        LET r == verification_results[i]
        IN /\ r.verified \in BOOLEAN
           /\ r.verified <=> r.status \in {"verified", "partially_verified"}
           /\ ~r.verified <=> r.status = "unverified"

\* a partially verified result with the flag set beside an unverified
\* result of an empty search without it
C16_Witness ==
    /\ \E i \in DOMAIN verification_results :
          /\ verification_results[i].status = "partially_verified"
          /\ verification_results[i].verified
    /\ \E i \in DOMAIN verification_results :
          /\ verification_results[i].status = "unverified"
          /\ ~verification_results[i].verified

\* C17: search(query, n) with n <= 10 returns at most n candidates, whatever
\* number of items the response of the API holds, and the domain of each
\* candidate is the one extracted from its own url.
C17_SearchAtMostN ==
    \A k \in DOMAIN callLog :
        callLog[k].search_raised = "none" =>
            /\ callLog[k].num <= 10
            /\ Len(callLog[k].results) <= callLog[k].num
            /\ \A i \in DOMAIN callLog[k].results :
                  LET r == callLog[k].results[i]
                  IN r.domain = ExtractDomain(r.url, "url" \in r.nulls)

\* the first three sentences of a text that are longer than 30 characters
\* once stripped, tabulated for the texts of the model
LeadingTable ==
    [text \in Texts |->
        LET sentences == SplitSentences(text)
        IN {Strip(sentences[i]) :
               i \in {j \in DOMAIN sentences :
                         j <= 3 /\ CharLen(Strip(sentences[j])) > 30}}]

LeadingSentences(text) == LeadingTable[text]

\* the different strings found in a text, before the cut to 5
DistinctFound(text) == Cardinality(Range(FoundIn(text)))

\* C18 as stated: each of the first three sentences of length > 30 is in the
\* result of extract_key_claims, whether or not it matches a pattern and
\* however many sentences of the text match one.
C18_LeadingAlwaysIncluded ==
    Extracted => LeadingSentences(summary) \subseteq Range(claims)

\* C18 as the code has it: each of the first three sentences of length > 30
\* is in the result whenever the text yields at most 5 different claims;
\* a leading sentence is left out only by the cut of more than 5 to 5.
C18_LeadingIncludedUnlessCut ==
    Extracted =>
        /\ DistinctFound(summary) <= 5 =>
              LeadingSentences(summary) \subseteq Range(claims)
        /\ ~(LeadingSentences(summary) \subseteq Range(claims)) =>
              /\ DistinctFound(summary) > 5
              /\ Len(claims) = 5

\* three leading sentences, the third matching no pattern, all returned
C18_Witness ==
    /\ Extracted
    /\ Cardinality(LeadingSentences(summary)) = 3
    /\ \E s \in LeadingSentences(summary) : ~MatchesClaimPattern(s)
    /\ LeadingSentences(summary) \subseteq Range(claims)

\* six different sentences found, five returned, a leading one left out
C18_WitnessCut ==
    /\ Extracted
    /\ DistinctFound(summary) = 6
    /\ \E s \in LeadingSentences(summary) : s \notin Range(claims)

\* the sentences of a text, as re.split gives them, tabulated for the texts
\* of the model
SentenceTable == [text \in Texts |-> SplitSentences(text)]

SentencesOf(text) == SentenceTable[text]

\* C19: extract_key_claims returns [] for the empty string and for a text
\* whose sentences are all shorter than 20 characters, and no sentence of
\* the text that is shorter than 20 characters is among the claims returned.
C19_ShortSentencesDiscarded ==
    Extracted =>
        /\ summary = <<>> => claims = <<>>
        /\ (\A s \in Range(SentencesOf(summary)) : CharLen(s) < 20) => claims = <<>>
        /\ \A s \in Range(SentencesOf(summary)) :
              CharLen(s) < 20 => s \notin Range(claims)

Formatted == html # <<>>

\* the positions of the elements of html with a tag
TagAt(tag) == {i \in DOMAIN html : html[i].tag = tag}

\* the claim that a preview shows, cut to n characters
ShowsFirstChars(preview, s, n) ==
    /\ preview.shown.whole = SubSeq(s, 1, Len(preview.shown.whole))
    /\ CharLen(preview.shown.whole) + preview.shown.cutLen = Min(CharLen(s), n)
    /\ preview.shown.cutLen > 0 => preview.shown.cut = s[Len(preview.shown.whole) + 1]

\* C20: format_report_html always emits the container; the percentage is
\* green when >= 70, amber when >= 40 and red otherwise; the first 3
\* verification results are shown, each with the icon of its status; the
\* first 3 reliable sources are shown as links; and the results, sources
\* and warnings subsections are left out exactly when their list is empty.
C20_HtmlRendering ==
    Formatted =>
        LET results == report.verification_results
            sources == report.reliable_sources
            meter == html[CHOOSE i \in TagAt("confidence-meter") : TRUE]
        IN /\ html[1].tag = "div.fact-check"
           /\ html[Len(html)].tag = "/div.fact-check"
           /\ Cardinality(TagAt("confidence-meter")) = 1
           /\ meter.n * Unit <= report.overall_confidence * 100
           /\ report.overall_confidence * 100 < (meter.n + 1) * Unit
           /\ meter.color = Green <=> meter.n >= 70
           /\ meter.color = Amber <=> (meter.n >= 40 /\ meter.n < 70)
           /\ meter.color = Red <=> meter.n < 40
           /\ Cardinality(TagAt("result")) = Min(Len(results), 3)
           /\ \A j \in 1..Cardinality(TagAt("result")) :
                 LET el == html[NthSmallest(TagAt("result"), j)]
                 IN /\ el.icon = IconVerified <=> results[j].status = "verified"
                    /\ el.icon = IconPartial <=> results[j].status = "partially_verified"
                    /\ el.icon = IconUnverified <=> results[j].status = "unverified"
                    /\ ShowsFirstChars(el.text, results[j].claim, 80)
           /\ Cardinality(TagAt("a")) = Min(Len(sources), 3)
           /\ \A j \in 1..Cardinality(TagAt("a")) :
                 html[NthSmallest(TagAt("a"), j)].href = sources[j].url
           /\ TagAt("div.verifications") = {} <=> results = <<>>
           /\ TagAt("div.sources") = {} <=> sources = <<>>
           /\ TagAt("div.warnings") = {} <=> report.warnings = <<>>
           /\ Cardinality(TagAt("div.verifications")) <= 1
           /\ Cardinality(TagAt("div.sources")) <= 1
           /\ Cardinality(TagAt("div.warnings")) <= 1

\* a report of four results and more than three reliable sources, without
\* warnings: three results and three links are shown, no warnings subsection
C20_Witness ==
    /\ Formatted
    /\ Len(report.verification_results) = 4
    /\ Len(report.reliable_sources) > 3
    /\ report.warnings = <<>>
    /\ Cardinality(TagAt("result")) = 3
    /\ Cardinality(TagAt("a")) = 3
    /\ \E i \in TagAt("result") : html[i].icon = IconPartial

\* the report of an unconfigured engine: the container, a red 0% and the
\* warnings subsection alone
C20_WitnessDisabled ==
    /\ Formatted
    /\ CredentialsMissing
    /\ \E i \in TagAt("confidence-meter") : html[i].n = 0 /\ html[i].color = Red
    /\ TagAt("div.verifications") = {}
    /\ TagAt("div.sources") = {}
    /\ TagAt("warning") # {}

\* reports shown at exactly 70% in green and at exactly 40% in amber
C20_WitnessGreenAt70 ==
    /\ Formatted
    /\ \E i \in TagAt("confidence-meter") : html[i].n = 70 /\ html[i].color = Green

C20_WitnessAmberAt40 ==
    /\ Formatted
    /\ \E i \in TagAt("confidence-meter") : html[i].n = 40 /\ html[i].color = Amber

\* a claim of more than 80 characters is shown cut, with an unverified icon
C20_WitnessPreview ==
    /\ Formatted
    /\ \E i \in TagAt("result") :
          /\ html[i].text.dots
          /\ html[i].icon = IconUnverified

\* the positions of the lines of text with a tag
LineAt(tag) == {i \in DOMAIN lines : lines[i].tag = tag}

BothFormatted == html # <<>> /\ lines # <<>>

\* the percentage, the reliable sources and the warnings of the text are
\* those of the HTML
SameFigures ==
    /\ \A i \in LineAt("Overall Confidence:") : \A j \in TagAt("confidence-meter") :
          lines[i].n = html[j].n
    /\ Cardinality(LineAt("Overall Confidence:")) = 1
    /\ Cardinality(LineAt("url")) = Cardinality(TagAt("a"))
    /\ Cardinality(LineAt("source")) = Cardinality(TagAt("a"))
    /\ \A j \in 1..Cardinality(TagAt("a")) :
          /\ lines[NthSmallest(LineAt("url"), j)].href = html[NthSmallest(TagAt("a"), j)].href
          /\ lines[NthSmallest(LineAt("source"), j)].text
                = html[NthSmallest(TagAt("a"), j)].text
    /\ Cardinality(LineAt("warning")) = Cardinality(TagAt("warning"))
    /\ \A j \in 1..Cardinality(TagAt("warning")) :
          lines[NthSmallest(LineAt("warning"), j)].text
              = html[NthSmallest(TagAt("warning"), j)].text

\* the results of the text are those of the HTML, and two results shown
\* with the same indicator (icon and status label) in the text have the same
\* icon in the HTML
SameResults ==
    /\ Cardinality(LineAt("result")) = Cardinality(TagAt("result"))
    /\ \A j \in 1..Min(Cardinality(LineAt("result")), Cardinality(TagAt("result"))) :
          LET line == lines[NthSmallest(LineAt("result"), j)]
              el == html[NthSmallest(TagAt("result"), j)]
          IN /\ line.label = report.verification_results[j].status
             /\ (line.label = "verified") <=> (el.icon = IconVerified)
             /\ (line.label = "partially_verified") <=> (el.icon = IconPartial)
             /\ (line.label = "unverified") <=> (el.icon = IconUnverified)

\* C21: for the same report, format_report_text shows what format_report_html
\* shows: the same percentage, the same verification results (the first 3)
\* with an indicator that tells the same statuses apart, the same reliable
\* sources (up to 3) and the same warnings.
C21_TextMirrorsHtml ==
    BothFormatted =>
        /\ SameFigures
        /\ SameResults
        /\ Cardinality(LineAt("result")) <= 3

\* the k-th search returned one candidate, of the domain kubernetes.io, whose
\* snippet overlaps the claim by more than 0.2
AnsweredByKubernetes(k) ==
    /\ callLog[k].raised = "none"
    /\ Len(callLog[k].results) = 1
    /\ callLog[k].results[1].domain = Dom(<<"kubernetes", "io">>)
    /\ OverlapTable[claims[k], callLog[k].results[1].snippet]

\* C22: a claim whose search returns the single candidate kubernetes.io with
\* an overlap > 0.2 is 'verified' with a confidence >= 0.7, and a report
\* whose claims were all answered this way has overall_confidence >= 0.7.
C22_KubernetesVerified ==
    /\ \A k \in DOMAIN verification_results :
          AnsweredByKubernetes(k) =>
              /\ verification_results[k].status = "verified"
              /\ verification_results[k].verified
              /\ verification_results[k].confidence >= Pct(70)
    /\ (Returned /\ claims # <<>> /\ \A k \in DOMAIN claims : AnsweredByKubernetes(k)) =>
           report.overall_confidence >= Pct(70)

\* a report of two claims, both answered by kubernetes.io
C22_Witness ==
    /\ Returned
    /\ Len(claims) = 2
    /\ \A k \in DOMAIN claims : AnsweredByKubernetes(k)
    /\ report.overall_confidence = Unit
    /\ report.warnings = <<>>

(***************************************************************************)
(* C23: the retry loop of SearchEngine.search.                             *)
(***************************************************************************)
\* the attempts that yielded a non-empty list
Yielding == {i \in DOMAIN attemptLog :
                attemptLog[i].kind = "results" /\ attemptLog[i].value # <<>>}

SearchDone == pc = "search_returned"

SearchWithinRetries ==
    /\ Len(attemptLog) <= max_retries
    /\ \A i \in Yielding : i = Len(attemptLog)
    /\ exc = "none"
    /\ pc # "raised"

SearchReturnsFirstYield ==
    SearchDone =>
        IF Yielding # {}
        THEN /\ searchReturn = attemptLog[Len(attemptLog)].value
             /\ \A i \in DOMAIN searchReturn :
                   {"title", "href"} \subseteq DOMAIN searchReturn[i]
        ELSE /\ searchReturn = <<>>
             /\ Len(attemptLog) = max_retries

\* C23: a call of search makes at most max_retries attempts and none after
\* an attempt that yields a non-empty list, raises nothing, returns that
\* list (items carrying title and href) or [] when every attempt failed or
\* was empty (also when max_retries is 0), and always returns.
C23_SearchTerminates ==
    /\ [](SearchWithinRetries /\ SearchReturnsFirstYield)
    /\ <>SearchDone

C23_Witness ==
    /\ SearchDone
    /\ Len(attemptLog) = 3
    /\ attemptLog[1].kind = "raised"
    /\ attemptLog[2].value = <<>>
    /\ Len(searchReturn) = 2

(***************************************************************************)
(* C24: the domain of a candidate against the host of its URL.             *)
(***************************************************************************)
\* the host component of a netloc: what follows the user info and precedes
\* the port
RECURSIVE AfterUserInfo(_)
AfterUserInfo(n) ==
    IF "@" \in Range(n) THEN AfterUserInfo(Tail(n)) ELSE n

RECURSIVE BeforePort(_)
BeforePort(n) ==
    IF n = <<>> \/ Head(n) = ":" THEN <<>> ELSE <<Head(n)>> \o BeforePort(Tail(n))

HostOf(url) == BeforePort(AfterUserInfo(Netloc(url)))

WithoutLeadingWww(host) ==
    IF Len(host) >= 2 /\ SubSeq(host, 1, 2) = <<"www", ".">>
    THEN SubSeq(host, 3, Len(host))
    ELSE host

\* the candidates whose URL has a host
Hosted(k) ==
    {i \in DOMAIN callLog[k].results :
        LET url == callLog[k].results[i].url
        IN ~UrlParseRaises(url) /\ HostOf(url) # <<>>}

\* C24: the domain of every candidate is the host of its URL with only a
\* leading "www." removed: the host itself when it does not start with
\* "www.", and H for a host "www.H".
C24_LeadingWwwOnly ==
    \A k \in DOMAIN callLog : \A i \in Hosted(k) :
        LET r == callLog[k].results[i]
        IN r.domain = WithoutLeadingWww(HostOf(r.url))

(***************************************************************************)
(* C25-C27: the calls of one run of the daily pipeline.                    *)
(***************************************************************************)
\* the positions in trace of the calls of op made for the t-th topic
CallsOf(op, t) == {i \in DOMAIN trace : trace[i].op = op /\ trace[i].topic = t}

CallsOfOp(op) == {i \in DOMAIN trace : trace[i].op = op}

\* the reports appended for the t-th topic
ReportsOf(t) ==
    {j \in DOMAIN final_reports :
        final_reports[j].title = ReportDict(selected_topics[t]).title}

\* the run is past the t-th topic
Past(t) == idx > t \/ mpc \in {"render", "send", "done"}

VerifyOnlyWhenEnabled ==
    \A i \in CallsOfOp("verify_content") :
        /\ ~no_factcheck
        /\ api_key \notin Unset /\ cx \notin Unset
        /\ \E j \in CallsOf("synthesize_report", trace[i].topic) :
              j < i /\ trace[j].result = "dict"

SkippedStillAppends ==
    (no_factcheck \/ api_key \in Unset \/ cx \in Unset) =>
        /\ \A j \in DOMAIN final_reports :
              "fact_check_html" \notin final_reports[j].keys
        /\ \A t \in DOMAIN selected_topics :
              (Past(t) /\ \E i \in CallsOf("synthesize_report", t) :
                              trace[i].result = "dict")
                  => \E j \in ReportsOf(t) :
                        final_reports[j] = ReportDict(selected_topics[t])

\* C25: verify_content is called for a topic only when --no-factcheck was
\* not given and the checker is configured, and only after synthesize_report
\* returned a report for that topic; with fact-checking skipped the
\* synthesized report is appended all the same, without fact_check_html.
C25_FactCheckGated == VerifyOnlyWhenEnabled /\ SkippedStillAppends

\* a run with --no-factcheck on a configured checker that appended the
\* reports of two topics
C25_Witness ==
    /\ mpc = "done"
    /\ no_factcheck
    /\ cx = "secret"
    /\ Len(final_reports) = 2
    /\ CallsOfOp("verify_content") = {}

\* a run with fact-checking on: both reports carry fact_check_html
C25_WitnessChecked ==
    /\ mpc = "done"
    /\ ~no_factcheck
    /\ cx = "secret"
    /\ Cardinality(CallsOfOp("verify_content")) = 2
    /\ \A j \in DOMAIN final_reports : "fact_check_html" \in final_reports[j].keys
    /\ Len(final_reports) = 2

\* every call of synthesize_report for the t-th topic failed, three times
AllSynthFailed(t) ==
    /\ Cardinality(CallsOf("synthesize_report", t)) = 3
    /\ \A i \in CallsOf("synthesize_report", t) : trace[i].result = "None"

\* both searches for the t-th topic were empty
NoSearchResults(t) ==
    /\ Cardinality(CallsOf("search", t)) = 2
    /\ \A i \in CallsOf("search", t) : trace[i].result = "empty"

\* every page of the t-th topic's results gave no content
NoScrapedContent(t) ==
    /\ CallsOf("fetch_content", t) # {}
    /\ \A i \in CallsOf("fetch_content", t) : trace[i].result = "None"

\* the t-th topic was left without a report and without a fact-check, and
\* the run went on: with the next topic when there is one, else with the
\* part after the loop
MovedOn(t) ==
    /\ ReportsOf(t) = {}
    /\ CallsOf("verify_content", t) = {}
    /\ IF t < Len(selected_topics)
       THEN (idx = t + 1 /\ mpc = "search") \/ CallsOf("search", t + 1) # {}
       ELSE mpc \in {"render", "send", "done"}

SynthesisBounded ==
    \A t \in DOMAIN selected_topics :
        LET calls == CallsOf("synthesize_report", t)
        IN /\ Cardinality(calls) <= 3
           /\ \A i \in calls : \A j \in calls :
                 trace[i].result # "None" => j <= i

SearchRetriedOnce ==
    \A t \in DOMAIN selected_topics :
        LET calls == CallsOf("search", t)
        IN /\ Cardinality(calls) <= 2
           /\ \A i \in calls : \A j \in calls :
                 i < j => /\ trace[i].result = "empty"
                          /\ trace[i].arg = TutorialQuery(selected_topics[t])
                          /\ trace[j].arg = SimplerQuery(selected_topics[t])

FailedTopicsSkipped ==
    \A t \in DOMAIN selected_topics :
        /\ AllSynthFailed(t) => (idx = t /\ mpc = "synthesize") \/ MovedOn(t)
        /\ NoSearchResults(t) =>
              /\ MovedOn(t)
              /\ CallsOf("fetch_content", t) = {}
              /\ CallsOf("synthesize_report", t) = {}
        /\ NoScrapedContent(t) =>
              /\ MovedOn(t)
              /\ CallsOf("synthesize_report", t) = {}

\* C26: synthesize_report is called at most 3 times for a topic and never
\* after its first success; a topic whose 3 attempts all failed, whose two
\* searches (the second with the simpler query) were both empty, or whose
\* pages gave no content gets no report and no fact-check, and the run goes
\* on with the next topic.
C26_FailuresSkipTopic ==
    SynthesisBounded /\ SearchRetriedOnce /\ FailedTopicsSkipped

\* a run of two topics: the first failed three times in synthesis, and the
\* second, found by the simpler query and synthesized at the third attempt,
\* gave the only report
C26_Witness ==
    /\ mpc = "done"
    /\ Len(selected_topics) = 2
    /\ AllSynthFailed(1)
    /\ Cardinality(CallsOf("search", 2)) = 2
    /\ Cardinality(CallsOf("synthesize_report", 2)) = 3
    /\ Len(final_reports) = 1
    /\ ReportsOf(2) = {1}

\* a run whose first topic had no search results and whose second had no
\* scraped content
C26_WitnessNothingFound ==
    /\ mpc = "done"
    /\ Len(selected_topics) = 2
    /\ NoSearchResults(1)
    /\ NoScrapedContent(2)

\* the topics that the loop of lines 197-269 has taken up
ProcessedTopics == {trace[i].topic : i \in CallsOfOp("search")}

SentAtMostOnce ==
    /\ Cardinality(CallsOfOp("send_email")) <= 1
    /\ \A i \in CallsOfOp("send_email") :
          /\ final_reports # <<>>
          /\ \E j \in CallsOfOp("render") : j < i /\ trace[j].result = "html"

\* every report is the report of one selected topic, and no two of these
\* topics are equal in lower case
ReportsOfDistinctTopics ==
    /\ \A j \in DOMAIN final_reports :
          \E t \in DOMAIN selected_topics : j \in ReportsOf(t)
    /\ \A t \in DOMAIN selected_topics : \A u \in DOMAIN selected_topics :
          (t # u /\ ReportsOf(t) # {} /\ ReportsOf(u) # {})
              => Lower(selected_topics[t]) # Lower(selected_topics[u])
    /\ \A t \in DOMAIN selected_topics : Cardinality(ReportsOf(t)) <= 1

\* once a topic is processed, no more than max_topics are
AtMostMaxTopics ==
    ProcessedTopics # {} => Cardinality(ProcessedTopics) <= max_topics

\* C27: send_email is called at most once in a run, and only after a report
\* was generated and the template rendered; the reports sent belong to
\* selected topics that differ pairwise in lower case; and at most
\* max_topics topics are processed.
C27_OneNewsletter ==
    /\ SentAtMostOnce
    /\ CallsOfOp("send_email") # {} => ReportsOfDistinctTopics
    /\ AtMostMaxTopics

\* the same without the bound on the number of topics
C27_SendGuarded ==
    /\ SentAtMostOnce
    /\ CallsOfOp("send_email") # {} => ReportsOfDistinctTopics

\* the bound, for the values of --max-topics that are not negative
C27_BoundWhenNotNegative == max_topics >= 0 => AtMostMaxTopics

C27_SentTwoReports ==
    /\ mpc = "done"
    /\ CallsOfOp("send_email") # {}
    /\ Len(final_reports) = 2

(***************************************************************************)
(* C28: the status of a result against the number of candidates.           *)
(***************************************************************************)
\* C28: a result of verify_claim is unverified exactly when its search
\* returned no candidate; with at least one candidate the confidence is at
\* least 0.5 and verified is true, also when no candidate is relevant and
\* the result has no sources.
C28_UnverifiedIffNoCandidates ==
    \A k \in DOMAIN verification_results :
        LET result == verification_results[k]
            candidates == callLog[k].results
        IN /\ result.status = "unverified" <=> candidates = <<>>
           /\ candidates # <<>> =>
                 /\ result.confidence >= Pct(50)
                 /\ result.verified

\* a search that returned candidates none of which is relevant: the result
\* has no sources, a confidence of exactly 0.5, and is partially verified
C28_Witness ==
    \E k \in DOMAIN verification_results :
        /\ callLog[k].results # <<>>
        /\ callLog[k].relevant_sources = <<>>
        /\ verification_results[k].sources = <<>>
        /\ verification_results[k].confidence = Pct(50)
        /\ verification_results[k].status = "partially_verified"
        /\ verification_results[k].verified

(***************************************************************************)
(* C29: the advisory and the count warning of a returned report.           *)
(***************************************************************************)
AdvisoryOnlyWithCount ==
    HasLowConfidenceWarning(report) => HasCountWarning(report)

LowHasUnverified ==
    report.overall_confidence < Pct(50) => UnverifiedCount(report) > 0

\* C29 as stated: in every report that verify_content returns the advisory
\* is present only if the count warning is, and an overall confidence below
\* 0.5 implies that some result is unverified.
C29_LowImpliesUnverified ==
    Returned => AdvisoryOnlyWithCount /\ LowHasUnverified

\* C29 as the code has it: in every returned report the advisory is present
\* only if the count warning is; an overall confidence below 0.5 implies an
\* unverified result in the reports of a configured engine (the report of an
\* unconfigured one has confidence 0.0 and no results).
C29_AdvisoryNeedsCountWarning ==
    Returned =>
        /\ AdvisoryOnlyWithCount
        /\ ~CredentialsMissing => LowHasUnverified

\* a report of two claims with the advisory and the count warning: one
\* search empty, the other with candidates
C29_Witness ==
    /\ Returned
    /\ ~CredentialsMissing
    /\ Len(verification_results) = 2
    /\ UnverifiedCount(report) = 1
    /\ report.overall_confidence < Pct(50)
    /\ report.overall_confidence > 0
    /\ HasLowConfidenceWarning(report)
    /\ HasCountWarning(report)

\* the report of an unconfigured engine
C29_WitnessDisabled ==
    /\ Returned
    /\ CredentialsMissing
    /\ report.overall_confidence = 0
    /\ report.verification_results = <<>>

(***************************************************************************)
(* C30: candidates whose URL is malformed or empty.                        *)
(***************************************************************************)
PortNumbers == {"80", "443", "8080"}

\* what follows the first ":" of the host part of a netloc
RECURSIVE AfterColon(_)
AfterColon(n) ==
    IF n = <<>> THEN <<>>
    ELSE IF Head(n) = ":" THEN Tail(n) ELSE AfterColon(Tail(n))

\* the URL is None or empty, has no "scheme://host", has an unbalanced
\* bracket, or has a port that is no number
Malformed(result) ==
    \/ "url" \in result.nulls
    \/ result.url = <<>>
    \/ UrlParseRaises(result.url)
    \/ HostOf(result.url) = <<>>
    \/ LET port == AfterColon(AfterUserInfo(Netloc(result.url)))
       IN port # <<>> /\ port \notin {<<p>> : p \in PortNumbers}

\* the candidates of the k-th search with such a URL
MalformedAt(k) ==
    {i \in DOMAIN callLog[k].results : Malformed(callLog[k].results[i])}

\* the candidates of the k-th search for which urlparse raises or finds no
\* netloc
UnparsedAt(k) ==
    {i \in DOMAIN callLog[k].results :
        LET r == callLog[k].results[i]
        IN "url" \in r.nulls \/ UrlParseRaises(r.url) \/ Netloc(r.url) = <<>>}

UntrustedAt(k, i) ==
    LET r == callLog[k].results[i]
    IN /\ r.domain = <<>>
       /\ GetDomainTrustScore(r.domain) = 50
       /\ callLog[k].raised = "none" => callLog[k].trust_scores[i] = 50
       /\ Returned => r \notin Range(report.reliable_sources)

\* C30: a candidate whose URL is malformed or empty has the empty domain,
\* which scores 0.5: it is not counted as trusted and is not among the
\* reliable sources of the report.
C30_MalformedUrlUntrusted ==
    \A k \in DOMAIN callLog : \A i \in MalformedAt(k) : UntrustedAt(k, i)

\* the same for the URLs that urlparse rejects or finds no netloc in
C30_UnparsedUrlUntrusted ==
    \A k \in DOMAIN callLog : \A i \in UnparsedAt(k) : UntrustedAt(k, i)

C30_UnparsedReturned ==
    /\ Returned
    /\ \E k \in DOMAIN callLog :
          /\ Cardinality(UnparsedAt(k)) = 4
          /\ callLog[k].raised = "none"

====
